---- MODULE Spec2Model ----
(***************************************************************************)
(* Feature engineering of karimassi02/crypto-prediction-mlops:             *)
(* src/features/technical_indicators.py (indicator library) and            *)
(* src/features/feature_engineer.py (CryptoFeatureEngineer), with the      *)
(* sentiment classes as src/api/dashboard.py and view_data.py use them.    *)
(*                                                                         *)
(* Numbers are exact rationals <<n, d>> in lowest terms with d > 0;        *)
(* <<0, 0>> is NaN (pandas' missing value), <<1, 0>> and <<-1, 0>> are the  *)
(* two infinities a float division by zero produces. Signed zeros are not  *)
(* distinguished and rounding is not modelled.                             *)
(***************************************************************************)
EXTENDS Integers, Sequences, FiniteSets, TLC

VARIABLES
    column,      \* indicator call: the input series df[column]
    period,      \* indicator call: the window / period / span argument
    result,      \* indicator call: the returned Series
    called,      \* indicator call: which function returned ("none" before)
    extra,       \* indicator call: the further arguments of the call, in order
    df_price,    \* create_all_features: the caller's price table
    df_fear_greed, \* create_all_features: the caller's sentiment table or None
    add_lags,    \* create_all_features: the add_lags argument
    df,          \* create_all_features: the local working table
    pc,          \* create_all_features: the statement to execute next
    steps,       \* history: the steps of create_all_features executed so far
    warned,      \* history: the removed_rows given to logger.warning
    symbols,     \* process_features: the symbols still to be processed
    written,     \* process_features: the files of data/processed, by name
    clock,       \* process_features: datetime.now(), in seconds
    env,         \* collectors: the environment variables and the remote replies
    answer,      \* collectors: what the entry point called last gave its caller
    timeframe,   \* fetch_historical_range: the timeframe argument
    days_back,   \* fetch_historical_range: the days_back argument
    since,       \* fetch_historical_range: the local since
    all_data,    \* fetch_historical_range: the local list of pages
    requests     \* history: the calls of fetch_ohlcv made so far

script_vars == <<symbols, written, clock>>

collector_vars == <<env, answer, timeframe, days_back, since, all_data, requests>>

vars == <<column, period, result, called, extra,
          df_price, df_fear_greed, add_lags, df, pc, steps, warned,
          symbols, written, clock,
          env, answer, timeframe, days_back, since, all_data, requests>>

\* no script is running
ScriptIdle ==
    /\ symbols = <<>>
    /\ written = <<>>
    /\ clock = 0

\* no collector is running
CollectorIdle ==
    /\ env = <<>>
    /\ answer = <<>>
    /\ timeframe = "1d"
    /\ days_back = 0
    /\ since = 0
    /\ all_data = <<>>
    /\ requests = <<>>

-----------------------------------------------------------------------------
(* Bounds of the model *)

\* process_features: the rows of a drawn price file, and the seconds that
\* can pass during a run
MaxFileRows == 3
MaxClock == 1

\* indicator calls: series values are NaN or an integer 0..MaxVal
MaxVal == 3
\* indicator calls: series have 0..MaxLen rows
MaxLen == 4
\* indicator calls: window / period in 1..MaxWin (MaxWin > MaxLen covers W > N)
MaxWin == 4
\* create_all_features: price tables of any values have 0..MaxRows rows
MaxRows == 3
\* create_all_features: price and sentiment dates are drawn from 1..MaxDay
MaxDay == 4
\* create_all_features: drawn sentiment tables have 0..MaxFG rows
MaxFG == 2
\* create_all_features: the long tables have LongRows rows
LongRows == 32
\* band calls: series values are NaN or an integer 0..MaxBandVal
MaxBandVal == 1
\* band calls: num_std of the Bollinger bands in 1..MaxStd
MaxStd == 2
\* band calls: the signal span of the MACD in 1..MaxSignal
MaxSignal == 2
\* floats are tracked exactly while numerator and denominator stay within
\* RepLimit (products of two tracked parts fit TLC's 32-bit integers)
RepLimit == 30000

-----------------------------------------------------------------------------
(* float arithmetic *)

\* Python's None, where a table is expected
None == [none |-> TRUE]

NaN == <<0, 0>>
PInf == <<1, 0>>
NInf == <<-1, 0>>
\* a finite float whose exact value the model does not track (its numerator
\* or denominator exceeds RepLimit); every operation on it yields Unrep or NaN
Unrep == <<0, -1>>

Abs(n) == IF n < 0 THEN -n ELSE n

Sign(n) == IF n < 0 THEN -1 ELSE IF n > 0 THEN 1 ELSE 0

RECURSIVE Gcd(_, _)
Gcd(a, b) == IF b = 0 THEN a ELSE Gcd(b, a % b)

\* the float n/d, d # 0
Frac(n, d) ==
    LET g == Gcd(Abs(n), Abs(d))
        nn == Sign(d) * (n \div g)
        dd == Abs(d) \div g
    IN  IF Abs(nn) > RepLimit \/ dd > RepLimit THEN Unrep ELSE <<nn, dd>>

\* the float of the integer n
R(n) == <<n, 1>>

IsNaN(x) == x = NaN
IsInf(x) == x = PInf \/ x = NInf
\* a finite float the model tracks exactly
IsFinite(x) == x[2] > 0

\* the truth value of a comparison the model cannot decide: evaluating it
\* stops the check instead of guessing
Undecided == CHOOSE b \in {} : TRUE

RNeg(x) == <<-x[1], x[2]>>

RAdd(x, y) ==
    IF IsNaN(x) \/ IsNaN(y) THEN NaN
    ELSE IF x = Unrep \/ y = Unrep THEN Unrep
    ELSE IF IsInf(x) THEN (IF IsInf(y) /\ y # x THEN NaN ELSE x)
    ELSE IF IsInf(y) THEN y
    ELSE LET g == Gcd(x[2], y[2])
         IN  Frac(x[1] * (y[2] \div g) + y[1] * (x[2] \div g), x[2] * (y[2] \div g))

RSub(x, y) == RAdd(x, RNeg(y))

RMul(x, y) ==
    IF IsNaN(x) \/ IsNaN(y) THEN NaN
    ELSE IF x = Unrep \/ y = Unrep THEN Unrep
    ELSE IF IsInf(x) \/ IsInf(y)
         THEN (IF x[1] = 0 \/ y[1] = 0 THEN NaN ELSE <<Sign(x[1]) * Sign(y[1]), 0>>)
    ELSE Frac(x[1] * y[1], x[2] * y[2])

RDiv(x, y) ==
    IF IsNaN(x) \/ IsNaN(y) THEN NaN
    ELSE IF x = Unrep \/ y = Unrep THEN Unrep
    ELSE IF IsInf(y) THEN (IF IsInf(x) THEN NaN ELSE R(0))
    ELSE IF y[1] = 0 THEN (IF x[1] = 0 THEN NaN ELSE <<Sign(x[1]), 0>>)
    ELSE IF IsInf(x) THEN <<Sign(x[1]) * Sign(y[1]), 0>>
    ELSE Frac(x[1] * y[2], x[2] * y[1])

\* x < y as floats compare: False when either side is NaN
RLt(x, y) ==
    IF IsNaN(x) \/ IsNaN(y) THEN FALSE
    ELSE IF x = Unrep \/ y = Unrep THEN Undecided
    ELSE IF IsInf(x) \/ IsInf(y)
         THEN (x # y /\ (x = NInf \/ y = PInf))
    ELSE x[1] * y[2] < y[1] * x[2]

RGt(x, y) == RLt(y, x)

\* x <= y as floats compare: False when either side is NaN
RLe(x, y) == ~IsNaN(x) /\ ~IsNaN(y) /\ ~RLt(y, x)

\* x == y as floats compare: False when either side is NaN
REq(x, y) ==
    IF IsNaN(x) \/ IsNaN(y) THEN FALSE
    ELSE IF x = Unrep \/ y = Unrep THEN Undecided
    ELSE x = y

\* the drawn values of a price or volume column: missing, or 0..MaxVal
Values == {NaN} \cup {R(v) : v \in 0..MaxVal}

SeriesOf(S, n) == UNION {[1..k -> S] : k \in 0..n}

-----------------------------------------------------------------------------
(* pandas Series operations used by the indicator library *)

\* Series.rolling(window, min_periods).mean(): the sliding sum and count of
\* the non-missing observations, row i entering and row i - window leaving
RECURSIVE roll_mean_from(_, _, _, _, _, _)
roll_mean_from(x, window, min_periods, i, sum, nobs) ==
    IF i > Len(x) THEN <<>>
    ELSE LET s1 == IF IsNaN(x[i]) THEN sum ELSE RAdd(sum, x[i])
             n1 == IF IsNaN(x[i]) THEN nobs ELSE nobs + 1
             leaving == i > window /\ ~IsNaN(x[i - window])
             s2 == IF leaving THEN RSub(s1, x[i - window]) ELSE s1
             n2 == IF leaving THEN n1 - 1 ELSE n1
             out == IF n2 >= min_periods /\ n2 > 0 THEN RDiv(s2, R(n2)) ELSE NaN
         IN  <<out>> \o roll_mean_from(x, window, min_periods, i + 1, s2, n2)

rolling_mean(x, window, min_periods) ==
    roll_mean_from(x, window, min_periods, 1, R(0), 0)

\* Series.diff(periods)
diff(x, periods) ==
    [i \in 1..Len(x) |-> IF i > periods THEN RSub(x[i], x[i - periods]) ELSE NaN]

\* variant: the shift goes the other way (shift(-periods))
shift_forward(x, periods) ==
    [i \in 1..Len(x) |-> IF i + periods <= Len(x) THEN x[i + periods] ELSE NaN]

\* Series.shift(periods)
shift(x, periods) ==
    [i \in 1..Len(x) |-> IF i > periods THEN x[i - periods] ELSE NaN]

\* Series.ffill()
RECURSIVE ffill_from(_, _, _)
ffill_from(x, i, last) ==
    IF i > Len(x) THEN <<>>
    ELSE LET v == IF IsNaN(x[i]) THEN last ELSE x[i]
         IN  <<v>> \o ffill_from(x, i + 1, v)

ffill(x) == ffill_from(x, 1, NaN)

\* Series.fillna(value)
fillna(x, value) ==
    [i \in 1..Len(x) |-> IF IsNaN(x[i]) THEN value ELSE x[i]]

\* Series.replace(old, new) for a float old
replace(x, old, new) ==
    [i \in 1..Len(x) |-> IF REq(x[i], old) THEN new ELSE x[i]]

-----------------------------------------------------------------------------
(* technical_indicators.py *)

\* variant: the window is not allowed to shrink (min_periods left at its default)
calculate_sma_full_window(x, window) ==
    rolling_mean(x, window, window)

calculate_sma(x, window) ==
    rolling_mean(x, window, 1)

\* delta.where(delta > 0, 0)
gain_part(delta) ==
    [i \in 1..Len(delta) |-> IF RGt(delta[i], R(0)) THEN delta[i] ELSE R(0)]

\* -delta.where(delta < 0, 0)
loss_part(delta) ==
    [i \in 1..Len(delta) |-> RNeg(IF RLt(delta[i], R(0)) THEN delta[i] ELSE R(0))]

rsi_of(gain, loss) ==
    LET rs == [i \in 1..Len(gain) |-> RDiv(gain[i], replace(loss, R(0), NaN)[i])]
    IN  [i \in 1..Len(gain) |-> RSub(R(100), RDiv(R(100), RAdd(R(1), rs[i])))]

\* variant: gain and loss are taken from the wrong sides of the difference
calculate_rsi_swapped(x, p) ==
    LET delta == diff(x, 1)
        gain == rolling_mean(loss_part(delta), p, 1)
        loss == rolling_mean(gain_part(delta), p, 1)
    IN  fillna(rsi_of(gain, loss), R(50))

\* variant: the zero loss is not replaced before the division
calculate_rsi_unguarded(x, p) ==
    LET delta == diff(x, 1)
        gain == rolling_mean(gain_part(delta), p, 1)
        loss == rolling_mean(loss_part(delta), p, 1)
        rs == [i \in 1..Len(x) |-> RDiv(gain[i], loss[i])]
        rsi == [i \in 1..Len(x) |-> RSub(R(100), RDiv(R(100), RAdd(R(1), rs[i])))]
    IN  fillna(rsi, R(50))

\* variant: the final fillna(50) is left out
calculate_rsi_nofill(x, p) ==
    LET delta == diff(x, 1)
        gain == rolling_mean(gain_part(delta), p, 1)
        loss == rolling_mean(loss_part(delta), p, 1)
    IN  rsi_of(gain, loss)

\* variant: an undefined RSI is filled with 0
calculate_rsi_zero_default(x, p) ==
    LET delta == diff(x, 1)
        gain == rolling_mean(gain_part(delta), p, 1)
        loss == rolling_mean(loss_part(delta), p, 1)
    IN  fillna(rsi_of(gain, loss), R(0))

calculate_rsi(x, p) ==
    LET delta == diff(x, 1)
        gain == rolling_mean(gain_part(delta), p, 1)
        loss == rolling_mean(loss_part(delta), p, 1)
    IN  fillna(rsi_of(gain, loss), R(50))

\* Series.ewm(alpha, adjust=False).mean(), with pandas' defaults
\* ignore_na=False and min_periods=0: the recurrence is seeded by the first
\* observation; a missing row repeats the last mean and ages its weight
RECURSIVE ewm_mean_from(_, _, _, _, _)
ewm_mean_from(x, alpha, i, weighted, old_wt) ==
    IF i > Len(x) THEN <<>>
    ELSE LET cur == x[i]
             aged == RMul(old_wt, RSub(R(1), alpha))
             blended == RDiv(RAdd(RMul(aged, weighted), RMul(alpha, cur)),
                             RAdd(aged, alpha))
             w2 == IF i = 1 THEN cur
                   ELSE IF ~IsNaN(weighted)
                        THEN (IF ~IsNaN(cur) /\ weighted # cur THEN blended ELSE weighted)
                        ELSE cur
             o2 == IF i = 1 THEN R(1)
                   ELSE IF ~IsNaN(weighted)
                        THEN (IF ~IsNaN(cur) THEN R(1) ELSE aged)
                        ELSE old_wt
         IN  <<w2>> \o ewm_mean_from(x, alpha, i + 1, w2, o2)

calculate_ema(x, span) ==
    ewm_mean_from(x, RDiv(R(2), R(span + 1)), 1, NaN, R(1))

\* variant: the histogram is taken the other way round
calculate_macd_flipped(x, fast, slow, signal) ==
    LET ema_fast == calculate_ema(x, fast)
        ema_slow == calculate_ema(x, slow)
        macd_line == [i \in 1..Len(x) |-> RSub(ema_fast[i], ema_slow[i])]
        signal_line == calculate_ema(macd_line, signal)
        histogram == [i \in 1..Len(x) |-> RSub(signal_line[i], macd_line[i])]
    IN  [macd |-> macd_line, macd_signal |-> signal_line, macd_histogram |-> histogram]

calculate_macd(x, fast, slow, signal) ==
    LET ema_fast == calculate_ema(x, fast)
        ema_slow == calculate_ema(x, slow)
        macd_line == [i \in 1..Len(x) |-> RSub(ema_fast[i], ema_slow[i])]
        signal_line == calculate_ema(macd_line, signal)
        histogram == [i \in 1..Len(x) |-> RSub(macd_line[i], signal_line[i])]
    IN  [macd |-> macd_line, macd_signal |-> signal_line, macd_histogram |-> histogram]

(* A standard deviation is the square root of a rational: a float when the  *)
(* root is rational, and otherwise the surd <<a, c, v>> = a + c * sqrt(v)   *)
(* with floats a, c and v.                                                  *)

RECURSIVE ISqrtFrom(_, _)
ISqrtFrom(n, k) == IF (k + 1) * (k + 1) > n THEN k ELSE ISqrtFrom(n, k + 1)

IsSquare(n) == ISqrtFrom(n, 0) * ISqrtFrom(n, 0) = n

RSqrt(v) ==
    IF IsNaN(v) \/ v = Unrep THEN v
    ELSE IF IsSquare(v[1]) /\ IsSquare(v[2])
         THEN <<ISqrtFrom(v[1], 0), ISqrtFrom(v[2], 0)>>
    ELSE <<R(0), R(1), v>>

IsSurd(s) == Len(s) = 3

\* s * k for a float k
XScale(s, k) ==
    IF IsSurd(s) THEN <<RMul(s[1], k), RMul(s[2], k), s[3]>> ELSE RMul(s, k)

\* m + s and m - s for a float m
XAdd(m, s) ==
    IF ~IsSurd(s) THEN RAdd(m, s)
    ELSE IF IsNaN(m) THEN NaN ELSE <<RAdd(m, s[1]), s[2], s[3]>>

XSubFrom(m, s) ==
    IF ~IsSurd(s) THEN RSub(m, s)
    ELSE IF IsNaN(m) THEN NaN ELSE <<RSub(m, s[1]), RNeg(s[2]), s[3]>>

\* u - l, for two floats or two surds of the same radicand
XSub(u, l) ==
    IF ~IsSurd(u) /\ ~IsSurd(l) THEN RSub(u, l)
    ELSE IF ~IsSurd(u) \/ ~IsSurd(l) THEN NaN
    ELSE IF RSub(u[2], l[2]) = R(0) THEN RSub(u[1], l[1])
    ELSE <<RSub(u[1], l[1]), RSub(u[2], l[2]), u[3]>>

RECURSIVE SumOver(_, _)
SumOver(x, I) ==
    IF I = {} THEN R(0)
    ELSE LET i == CHOOSE k \in I : TRUE IN RAdd(x[i], SumOver(x, I \ {i}))

\* Series.rolling(window, min_periods).std(): the sample standard deviation
\* (ddof = 1) of the non-missing observations of the window, missing when
\* there are fewer than min_periods or fewer than 2 of them
rolling_std(x, window, min_periods) ==
    [i \in 1..Len(x) |->
        LET obs == {j \in 1..i : j > i - window /\ ~IsNaN(x[j])}
            n == Cardinality(obs)
            mean == RDiv(SumOver(x, obs), R(n))
            dev2 == [j \in 1..Len(x) |-> RMul(RSub(x[j], mean), RSub(x[j], mean))]
        IN  IF n >= min_periods /\ n > 1
            THEN RSqrt(RDiv(SumOver(dev2, obs), R(n - 1)))
            ELSE NaN]

\* variant: the width is measured from the middle band
calculate_bollinger_bands_halfwidth(x, window, num_std) ==
    LET middle_band == calculate_sma(x, window)
        std == rolling_std(x, window, 1)
        upper_band == [i \in 1..Len(x) |-> XAdd(middle_band[i], XScale(std[i], R(num_std)))]
        lower_band == [i \in 1..Len(x) |-> XSubFrom(middle_band[i], XScale(std[i], R(num_std)))]
    IN  [bb_upper |-> upper_band, bb_middle |-> middle_band, bb_lower |-> lower_band,
         bb_width |-> [i \in 1..Len(x) |-> XSub(upper_band[i], middle_band[i])]]

calculate_bollinger_bands(x, window, num_std) ==
    LET middle_band == calculate_sma(x, window)
        std == rolling_std(x, window, 1)
        upper_band == [i \in 1..Len(x) |-> XAdd(middle_band[i], XScale(std[i], R(num_std)))]
        lower_band == [i \in 1..Len(x) |-> XSubFrom(middle_band[i], XScale(std[i], R(num_std)))]
    IN  [bb_upper |-> upper_band, bb_middle |-> middle_band, bb_lower |-> lower_band,
         bb_width |-> [i \in 1..Len(x) |-> XSub(upper_band[i], lower_band[i])]]

\* variant: the ratio is not reduced by 1
pct_change_100_ratio(x, periods, fill_method) ==
    LET data == IF fill_method = "pad" THEN ffill(x) ELSE x
    IN  [i \in 1..Len(x) |-> RMul(RDiv(data[i], shift(data, periods)[i]), R(100))]

\* the default fill_method of Series.pct_change, which the code leaves to
\* the installed pandas: "pad" before pandas 3.0 (missing values are forward
\* filled before the ratio is taken), no filling from pandas 3.0 on
FillMethods == {"pad", "none"}

\* Series.pct_change(periods) * 100
pct_change_100(x, periods, fill_method) ==
    LET data == IF fill_method = "pad" THEN ffill(x) ELSE x
    IN  [i \in 1..Len(x) |->
            RMul(RSub(RDiv(data[i], shift(data, periods)[i]), R(1)), R(100))]

RECURSIVE calculate_price_changes(_, _, _)
calculate_price_changes(x, periods, fill_method) ==
    IF periods = <<>> THEN <<>>
    ELSE LET p == periods[Len(periods)]
         IN  (("price_change_" \o ToString(p) \o "d") :> pct_change_100(x, p, fill_method))
             @@ calculate_price_changes(x, SubSeq(periods, 1, Len(periods) - 1),
                                        fill_method)

\* variant: a volume of exactly twice the average counts as a spike
calculate_volume_indicators_ge(v, fill_method) ==
    LET volume_ma_7 == rolling_mean(v, 7, 1)
        volume_ratio == [i \in 1..Len(v) |-> RDiv(v[i], volume_ma_7[i])]
    IN  [volume_ma_7 |-> volume_ma_7,
         volume_ma_30 |-> rolling_mean(v, 30, 1),
         volume_ratio |-> volume_ratio,
         volume_change_1d |-> pct_change_100(v, 1, fill_method),
         volume_spike |-> [i \in 1..Len(v) |->
                             IF RLe(R(2), volume_ratio[i]) THEN 1 ELSE 0]]

calculate_volume_indicators(v, fill_method) ==
    LET volume_ma_7 == rolling_mean(v, 7, 1)
        volume_ratio == [i \in 1..Len(v) |-> RDiv(v[i], volume_ma_7[i])]
    IN  [volume_ma_7 |-> volume_ma_7,
         volume_ma_30 |-> rolling_mean(v, 30, 1),
         volume_ratio |-> volume_ratio,
         volume_change_1d |-> pct_change_100(v, 1, fill_method),
         volume_spike |-> [i \in 1..Len(v) |->
                             IF RGt(volume_ratio[i], R(2)) THEN 1 ELSE 0]]

-----------------------------------------------------------------------------
(* feature_engineer.py: tables                                              *)
(*                                                                          *)
(* A DataFrame is a function from its column names to columns of one        *)
(* length; rows are identified by position. A datetime64 timestamp is a     *)
(* record [date, hour]: date is the day of the year 2024 (1 = 2024-01-01).  *)
(* A timestamp read from a CSV file is text, the record                     *)
(* [year, month, day, hour] of its fields.                                  *)

NRows(t) == IF DOMAIN t = {} THEN 0 ELSE Len(t[CHOOSE c \in DOMAIN t : TRUE])

\* df[name] = col
SetCol(t, name, col) == (name :> col) @@ t

\* pd.concat([t, u], axis=1), for tables without common column names
Concat(t, u) == t @@ u

\* variant: nothing is dropped
DropCol_none(t, name) == t

\* df.drop(name, axis=1)
DropCol(t, name) == [c \in DOMAIN t \ {name} |-> t[c]]

\* the rows of t at the positions idx, in that order
TakeRows(t, idx) == [c \in DOMAIN t |-> [k \in 1..Len(idx) |-> t[c][idx[k]]]]

\* a stage's outcome: the table it returns, or the KeyError it raises
Returned(t) == [raised |-> FALSE, df |-> t]
KeyError == [raised |-> TRUE, df |-> <<>>]

\* variant: the flag is also set where the two averages are equal
sma_crossover_ge(sma_7, sma_30) ==
    [i \in 1..Len(sma_7) |-> IF RLe(sma_30[i], sma_7[i]) THEN 1 ELSE 0]

\* (df['sma_7'] > df['sma_30']).astype(int)
sma_crossover(sma_7, sma_30) ==
    [i \in 1..Len(sma_7) |-> IF RGt(sma_7[i], sma_30[i]) THEN 1 ELSE 0]

\* the columns are listed last-assigned first: in f @@ g the columns of f
\* replace those of g, as a later df[name] = ... replaces an earlier column
add_technical_indicators(t, price_col, volume_col, fill_method) ==
    IF price_col \notin DOMAIN t THEN KeyError
    ELSE
    LET price == t[price_col]
        n == Len(price)
        sma_7 == calculate_sma(price, 7)
        sma_30 == calculate_sma(price, 30)
    IN  Returned(
          [sma_crossover |-> sma_crossover(sma_7, sma_30),
           price_to_sma30_ratio |-> [i \in 1..n |-> RDiv(price[i], sma_30[i])],
           price_to_sma7_ratio |-> [i \in 1..n |-> RDiv(price[i], sma_7[i])]]
          @@ (IF volume_col \in DOMAIN t
              THEN calculate_volume_indicators(t[volume_col], fill_method) ELSE <<>>)
          @@ calculate_price_changes(price, <<1, 7, 30>>, fill_method)
          @@ calculate_bollinger_bands(price, 20, 2)
          @@ calculate_macd(price, 12, 26, 9)
          @@ [rsi_14 |-> calculate_rsi(price, 14),
              ema_26 |-> calculate_ema(price, 26),
              ema_12 |-> calculate_ema(price, 12),
              sma_30 |-> sma_30,
              sma_7 |-> sma_7]
          @@ t)

\* the calendar of 2024
MonthLengths == <<31, 29, 31, 30, 31, 30, 31, 31, 30, 31, 30, 31>>

RECURSIVE MonthDayFrom(_, _)
MonthDayFrom(d, m) ==
    IF d <= MonthLengths[m] \/ m = Len(MonthLengths) THEN [month |-> m, day |-> d]
    ELSE MonthDayFrom(d - MonthLengths[m], m + 1)

\* the day of the year of the calendar day m-d
RECURSIVE DayOfYear(_, _)
DayOfYear(m, d) == IF m = 1 THEN d ELSE MonthLengths[m - 1] + DayOfYear(m - 1, d)

\* pd.api.types.is_datetime64_any_dtype(col)
is_datetime64_any_dtype(col) == \A i \in 1..Len(col) : "date" \in DOMAIN col[i]

\* the text of col can be parsed: every text timestamp names a day of the
\* calendar and an hour of the day
parses(col) ==
    \A i \in 1..Len(col) :
        "date" \notin DOMAIN col[i] =>
            /\ col[i].month \in 1..Len(MonthLengths)
            /\ col[i].day \in 1..MonthLengths[col[i].month]
            /\ col[i].hour \in 0..23

\* the exception pd.to_datetime raises for text it cannot parse
ValueError == [raised |-> TRUE, df |-> <<>>, exception |-> "ValueError"]

\* pd.to_datetime(col): text is parsed, datetime64 values are kept
to_datetime(col) ==
    [i \in 1..Len(col) |->
        IF "date" \in DOMAIN col[i] THEN col[i]
        ELSE [date |-> DayOfYear(col[i].month, col[i].day), hour |-> col[i].hour]]

Month(ts) == MonthDayFrom(ts.date, 1).month
Day(ts) == MonthDayFrom(ts.date, 1).day
\* 2024-01-01 is a Monday
DayOfWeek(ts) == (ts.date - 1) % 7

add_temporal_features(t, timestamp_col) ==
    IF timestamp_col \notin DOMAIN t THEN KeyError
    ELSE IF ~parses(t[timestamp_col]) THEN ValueError
    ELSE
    LET ts == IF is_datetime64_any_dtype(t[timestamp_col]) THEN t[timestamp_col]
              ELSE to_datetime(t[timestamp_col])
        n == Len(ts)
        Col(f(_)) == [i \in 1..n |-> f(ts[i])]
        Year(x) == 2024
        Hour(x) == x.hour
        Quarter(x) == ((Month(x) - 1) \div 3) + 1
        IsWeekend(x) == IF DayOfWeek(x) >= 5 THEN 1 ELSE 0
        IsMonthStart(x) == IF Day(x) = 1 THEN 1 ELSE 0
        IsMonthEnd(x) == IF Day(x) = MonthLengths[Month(x)] THEN 1 ELSE 0
    IN  Returned(
          [year |-> Col(Year), month |-> Col(Month), day |-> Col(Day),
           day_of_week |-> Col(DayOfWeek), hour |-> Col(Hour),
           quarter |-> Col(Quarter), is_weekend |-> Col(IsWeekend),
           is_month_start |-> Col(IsMonthStart), is_month_end |-> Col(IsMonthEnd)]
          @@ SetCol(t, timestamp_col, ts))

\* pd.to_datetime(col).dt.date
dt_date(col) == [i \in 1..Len(col) |-> to_datetime(col)[i].date]

\* the row pairs <<i, j>> of left.merge(right, on='date', how='left'): every
\* left row in order, once per right row of the same date in the right
\* table's order, or once with j = 0 when no right row has its date
RECURSIVE merge_left_pairs(_, _, _)
merge_left_pairs(left_dates, right_dates, i) ==
    IF i > Len(left_dates) THEN <<>>
    ELSE LET matches == SelectSeq([j \in 1..Len(right_dates) |-> j],
                                  LAMBDA j : right_dates[j] = left_dates[i])
             rows == IF matches = <<>> THEN <<<<i, 0>>>>
                     ELSE [k \in 1..Len(matches) |-> <<i, matches[k]>>]
         IN  rows \o merge_left_pairs(left_dates, right_dates, i + 1)

\* Series.astype(int) of a boolean column
astype_int(b) == [i \in 1..Len(b) |-> IF b[i] THEN 1 ELSE 0]

\* variant: the first bucket excludes its upper limit
is_extreme_fear_strict(v) == RLt(v, R(25))

\* the five bucket conditions, lines 156-160
is_extreme_fear(v) == RLe(v, R(25))
is_fear(v) == RGt(v, R(25)) /\ RLe(v, R(45))
is_neutral(v) == RGt(v, R(45)) /\ RLe(v, R(55))
is_greed(v) == RGt(v, R(55)) /\ RLe(v, R(75))
is_extreme_greed(v) == RGt(v, R(75))

add_sentiment_features(tp, tf) ==
    IF "timestamp" \notin DOMAIN tp \/ "timestamp" \notin DOMAIN tf
       \/ "value" \notin DOMAIN tf
    THEN KeyError
    ELSE IF ~parses(tp["timestamp"]) \/ ~parses(tf["timestamp"]) THEN ValueError
    ELSE
    LET p1 == SetCol(tp, "date", dt_date(tp["timestamp"]))
        f1 == SetCol(tf, "date", dt_date(tf["timestamp"]))
        df_fg == [date |-> f1["date"], fear_greed_index |-> f1["value"]]
        pairs == merge_left_pairs(p1["date"], df_fg["date"], 1)
        joined == [k \in 1..Len(pairs) |->
                      IF pairs[k][2] = 0 THEN NaN
                      ELSE R(df_fg["fear_greed_index"][pairs[k][2]])]
        merged == SetCol(TakeRows(p1, [k \in 1..Len(pairs) |-> pairs[k][1]]),
                         "fear_greed_index", joined)
        fgi == ffill(merged["fear_greed_index"])
        out == [fear_greed_index |-> fgi,
                fg_ma_7 |-> rolling_mean(fgi, 7, 1),
                fg_ma_30 |-> rolling_mean(fgi, 30, 1),
                fg_change_7d |-> diff(fgi, 7),
                is_extreme_fear |->
                    astype_int([i \in 1..Len(fgi) |-> is_extreme_fear(fgi[i])]),
                is_fear |->
                    astype_int([i \in 1..Len(fgi) |-> is_fear(fgi[i])]),
                is_neutral |->
                    astype_int([i \in 1..Len(fgi) |-> is_neutral(fgi[i])]),
                is_greed |->
                    astype_int([i \in 1..Len(fgi) |-> is_greed(fgi[i])]),
                is_extreme_greed |->
                    astype_int([i \in 1..Len(fgi) |-> is_extreme_greed(fgi[i])])] @@ merged
    IN  Returned(DropCol(out, "date"))

lag_name(col, lag) == col \o "_lag_" \o ToString(lag) \o "d"

\* the inner loop of add_lag_features: for lag in lags
RECURSIVE add_lags_of(_, _, _)
add_lags_of(t, col, lags) ==
    IF lags = <<>> THEN t
    ELSE add_lags_of(SetCol(t, lag_name(col, Head(lags)), shift(t[col], Head(lags))),
                     col, Tail(lags))

\* the outer loop of add_lag_features: for col in columns
RECURSIVE add_lag_features(_, _, _)
add_lag_features(t, columns, lags) ==
    IF columns = <<>> THEN t
    ELSE add_lag_features(
             IF Head(columns) \in DOMAIN t
             THEN add_lags_of(t, Head(columns), lags) ELSE t,
             Tail(columns), lags)

\* variant: a row is dropped only when all of the subset is missing (how='all')
dropna_how_all(t, subset) ==
    IF \E c \in subset : c \notin DOMAIN t THEN KeyError
    ELSE Returned(TakeRows(t,
             SelectSeq([i \in 1..NRows(t) |-> i],
                       LAMBDA i : \E c \in subset : ~IsNaN(t[c][i]))))

\* df.dropna(subset=subset)
dropna(t, subset) ==
    IF \E c \in subset : c \notin DOMAIN t THEN KeyError
    ELSE Returned(TakeRows(t,
             SelectSeq([i \in 1..NRows(t) |-> i],
                       LAMBDA i : \A c \in subset : ~IsNaN(t[c][i]))))

-----------------------------------------------------------------------------
(* feature_engineer.py: what a call leaves in the tables passed to it       *)
(*                                                                          *)
(* A DataFrame object is a record [callers, table]: callers tells whether   *)
(* it is the object the caller passed in. An assignment df[name] = ...      *)
(* changes the object the local name is bound to; df = pd.concat(...),      *)
(* merge and drop bind the name to a new object.                            *)

Passed(t) == [callers |-> TRUE, table |-> t]

\* variant: the stage works on the object it was given
copy_alias(obj) == obj

\* DataFrame.copy(): a new object with the same columns
copy(obj) == [callers |-> FALSE, table |-> obj.table]

\* add_technical_indicators: lines 49-55 assign in place, line 59 rebinds
technical_leaves(t, price_col) ==
    LET local == copy(Passed(t))
    IN  IF local.callers /\ price_col \in DOMAIN t
        THEN [rsi_14 |-> calculate_rsi(t[price_col], 14),
              ema_26 |-> calculate_ema(t[price_col], 26),
              ema_12 |-> calculate_ema(t[price_col], 12),
              sma_30 |-> calculate_sma(t[price_col], 30),
              sma_7 |-> calculate_sma(t[price_col], 7)] @@ t
        ELSE t

\* add_temporal_features: every assignment is in place
temporal_leaves(t, timestamp_col) ==
    LET local == copy(Passed(t))
        outcome == add_temporal_features(t, timestamp_col)
    IN  IF local.callers /\ ~outcome.raised THEN outcome.df ELSE t

\* add_sentiment_features: lines 138 and 139 assign 'date' in place, lines
\* 142 and 145 build new objects
sentiment_leaves(tp, tf) ==
    LET local_price == copy(Passed(tp))
        local_fear_greed == copy(Passed(tf))
        has_price_date == "timestamp" \in DOMAIN tp /\ parses(tp["timestamp"])
    IN  [price |-> IF local_price.callers /\ has_price_date
                   THEN SetCol(tp, "date", dt_date(tp["timestamp"])) ELSE tp,
         fear_greed |-> IF local_fear_greed.callers /\ has_price_date
                           /\ "timestamp" \in DOMAIN tf /\ parses(tf["timestamp"])
                        THEN SetCol(tf, "date", dt_date(tf["timestamp"])) ELSE tf]

\* add_lag_features: every assignment is in place
lag_leaves(t, columns, lags) ==
    LET local == copy(Passed(t))
    IN  IF local.callers THEN add_lag_features(t, columns, lags) ELSE t

-----------------------------------------------------------------------------
(* CryptoFeatureEngineer.create_all_features, statement by statement *)

indicator_vars == <<column, period, result, called, extra>>

\* a stage call as a statement of create_all_features: an exception leaves
\* the function, a return value is bound to df
Statement(outcome, step, next, price_left, fear_greed_left) ==
    /\ steps' = Append(steps, step)
    /\ IF outcome.raised
       THEN pc' = "raised" /\ df' = df
       ELSE pc' = next /\ df' = outcome.df
    /\ df_price' = price_left
    /\ df_fear_greed' = fear_greed_left
    /\ UNCHANGED <<add_lags, warned, indicator_vars, script_vars, collector_vars>>

\* line 209
AddTechnical ==
    /\ pc = "technical"
    /\ \E fill_method \in FillMethods :
          Statement(add_technical_indicators(df_price, "price_usd", "volume_24h_usd",
                                             fill_method),
                    "technical", "temporal",
                    technical_leaves(df_price, "price_usd"), df_fear_greed)

\* line 212
AddTemporal ==
    /\ pc = "temporal"
    /\ Statement(add_temporal_features(df, "timestamp"), "temporal", "sentiment",
                 df_price, df_fear_greed)

\* lines 215-216
AddSentiment ==
    /\ pc = "sentiment"
    /\ df_fear_greed # None
    /\ Statement(add_sentiment_features(df, df_fear_greed), "sentiment", "lags",
                 df_price, sentiment_leaves(df, df_fear_greed).fear_greed)

SkipSentiment ==
    /\ pc = "sentiment"
    /\ df_fear_greed = None
    /\ pc' = "lags"
    /\ UNCHANGED <<df, steps, df_price, df_fear_greed, add_lags, warned, indicator_vars, script_vars, collector_vars>>

\* variant: the lag stage does not look at add_lags
AddLags_unconditional ==
    /\ pc = "lags"
    /\ Statement(Returned(add_lag_features(df, <<"price_usd", "volume_24h_usd">>,
                                           <<1, 7, 30>>)),
                 "lag", "trim", df_price, df_fear_greed)

\* lines 219-220
AddLags ==
    /\ pc = "lags"
    /\ add_lags
    /\ Statement(Returned(add_lag_features(df, <<"price_usd", "volume_24h_usd">>,
                                           <<1, 7, 30>>)),
                 "lag", "trim", df_price, df_fear_greed)

SkipLags ==
    /\ pc = "lags"
    /\ ~add_lags
    /\ pc' = "trim"
    /\ UNCHANGED <<df, steps, df_price, df_fear_greed, add_lags, warned, indicator_vars, script_vars, collector_vars>>

\* lines 223-232
FinalTrim ==
    /\ pc = "trim"
    /\ LET outcome == dropna(df, {"price_usd", "sma_7", "rsi_14"})
           removed_rows == NRows(df) - NRows(outcome.df)
       IN  /\ steps' = Append(steps, "trim")
           /\ IF outcome.raised
              THEN pc' = "raised" /\ df' = df /\ warned' = warned
              ELSE /\ pc' = "returned"
                   /\ df' = outcome.df
                   /\ warned' = IF removed_rows > 0 THEN <<removed_rows>> ELSE <<>>
    /\ UNCHANGED <<df_price, df_fear_greed, add_lags, indicator_vars, script_vars, collector_vars>>

Next ==
    \/ AddTechnical
    \/ AddTemporal
    \/ AddSentiment
    \/ SkipSentiment
    \/ AddLags
    \/ SkipLags
    \/ FinalTrim

-----------------------------------------------------------------------------
(* Specification Spec: one call of create_all_features on drawn tables *)

IndicatorIdle ==
    /\ column = <<>>
    /\ period = 1
    /\ result = <<>>
    /\ called = "none"
    /\ extra = <<>>

\* one row per day from 2024-01-01, at midnight
Daily(n) == [i \in 1..n |-> [date |-> i, hour |-> 0]]

\* a price table as process_features passes it: the rows of one symbol in
\* ascending timestamp order, with or without a volume column
PriceTable(ts, price, has_volume, vol) ==
    LET base == [timestamp |-> ts,
                 symbol |-> [i \in 1..Len(ts) |-> "BTC"],
                 price_usd |-> price]
    IN  IF has_volume THEN [volume_24h_usd |-> vol] @@ base ELSE base

SentimentTable(dates, values) ==
    [timestamp |-> [i \in 1..Len(dates) |-> [date |-> dates[i], hour |-> 0]],
     value |-> values]

Ramp(n) == [i \in 1..n |-> R(i)]
Flat(n) == [i \in 1..n |-> R(2)]
ZigZag(n) == [i \in 1..n |-> R(1 + ((i * i) % 3))]
Burst(n) == [i \in 1..n |-> IF i % 9 = 0 THEN R(9) ELSE R(i % 2)]

Start(price, fg, lags) ==
    /\ df_price = price
    /\ df_fear_greed = fg
    /\ add_lags = lags
    /\ df = <<>>
    /\ pc = "technical"
    /\ steps = <<>>
    /\ warned = <<>>
    /\ IndicatorIdle
    /\ ScriptIdle /\ CollectorIdle

\* any prices (missing ones included) on consecutive days, no volume
InitPrices ==
    \E n \in 0..MaxRows : \E price \in [1..n -> Values] : \E lags \in BOOLEAN :
        Start(PriceTable(Daily(n), price, FALSE, <<>>), None, lags)

\* any volumes (missing ones included) on consecutive days
InitVolumes ==
    \E n \in 0..MaxRows : \E vol \in [1..n -> Values] :
        Start(PriceTable(Daily(n), Flat(n), TRUE, vol), None, TRUE)

Sorted(x) == \A i \in 2..Len(x) : x[i - 1] <= x[i]

\* the elements of the set of integers D in ascending order
RECURSIVE Ascending(_)
Ascending(D) ==
    IF D = {} THEN <<>>
    ELSE LET m == CHOOSE d \in D : \A e \in D : e <= d
         IN  Append(Ascending(D \ {m}), m)

\* the scores of the sentiment tables of InitSentiment: 80, 20, 80, ... or
\* 20, 80, 20, ... down the rows
Scores(k, greed_first) ==
    [i \in 1..k |-> IF (i % 2 = 1) = greed_first THEN 80 ELSE 20]

\* price rows on any set of days of 1..MaxDay, one or two rows a day, and
\* any sentiment table of at most MaxFG rows in date order (two rows may
\* share a date)
InitSentiment ==
    \E D \in SUBSET (1..MaxDay) : \E twice \in BOOLEAN :
    \E k \in 0..MaxFG : \E dates \in [1..k -> 1..MaxDay] :
    \E greed_first \in BOOLEAN :
        LET days == Ascending(D)
            ts == IF twice
                  THEN [i \in 1..(2 * Len(days)) |->
                           [date |-> days[(i + 1) \div 2],
                            hour |-> IF i % 2 = 1 THEN 0 ELSE 12]]
                  ELSE [i \in 1..Len(days) |-> [date |-> days[i], hour |-> 0]]
        IN  /\ Sorted(dates)
            /\ Start(PriceTable(ts, Ramp(Len(ts)), FALSE, <<>>),
                     SentimentTable(dates, Scores(k, greed_first)), TRUE)

\* one price row and one sentiment row of the same day, for every score
InitScores ==
    \E v \in 0..100 :
        Start(PriceTable(Daily(1), Flat(1), FALSE, <<>>),
              SentimentTable(<<1>>, <<v>>), TRUE)

\* long tables: more rows than the longest window and lag (30)
InitLong ==
    \E price \in {Flat(LongRows), Ramp(LongRows), ZigZag(LongRows)} :
    \E vol \in {Ramp(LongRows), ZigZag(LongRows), Burst(LongRows)} :
    \E has_volume \in BOOLEAN : \E has_sentiment \in BOOLEAN :
        Start(PriceTable(Daily(LongRows), price, has_volume, vol),
              IF has_sentiment
              THEN SentimentTable(<<3, 13, 23>>, <<20, 50, 80>>) ELSE None,
              TRUE)

\* tables that lack a column a stage needs
InitIncomplete ==
    \E n \in 0..1 : \E has_price \in BOOLEAN : \E has_sentiment \in BOOLEAN :
        Start(IF has_price THEN [price_usd |-> Flat(n)] ELSE [timestamp |-> Daily(n)],
              IF has_sentiment THEN [timestamp |-> Daily(n)] ELSE None,
              TRUE)

\* the text of the timestamp of day d of 2024 at hour h, as pd.read_csv
\* leaves a timestamp column
TextTimestamp(d, h) ==
    [year |-> 2024, month |-> MonthDayFrom(d, 1).month,
     day |-> MonthDayFrom(d, 1).day, hour |-> h]

\* tables read from CSV files, as process_features passes them: the
\* timestamps are text; the rows run over the end of January
InitCsv ==
    \E n \in 1..MaxRows : \E has_sentiment \in BOOLEAN : \E lags \in BOOLEAN :
        Start(PriceTable([i \in 1..n |-> TextTimestamp(29 + i, (6 * i) % 24)],
                         Ramp(n), FALSE, <<>>),
              IF has_sentiment
              THEN [timestamp |-> <<TextTimestamp(30, 0), TextTimestamp(32, 0)>>,
                    value |-> <<20, 80>>,
                    classification |-> <<"Extreme Fear", "Extreme Greed">>]
              ELSE None,
              lags)

\* ten daily prices around 100, without volume
ExampleSeries ==
    <<R(100), R(102), R(104), R(103), R(105), R(107), R(108), R(110), R(109), R(111)>>

InitExample ==
    \E lags \in BOOLEAN :
        Start(PriceTable(Daily(Len(ExampleSeries)), ExampleSeries, FALSE, <<>>),
              None, lags)

Init ==
    \/ InitPrices
    \/ InitVolumes
    \/ InitSentiment
    \/ InitScores
    \/ InitLong
    \/ InitIncomplete
    \/ InitCsv
    \/ InitExample

Spec == Init /\ [][Next]_vars

-----------------------------------------------------------------------------
(* Specification SpecInd: one call of an indicator function on a drawn      *)
(* series and window                                                        *)

PipelineIdle ==
    /\ df_price = <<>>
    /\ df_fear_greed = None
    /\ add_lags = FALSE
    /\ df = <<>>
    /\ pc = "idle"
    /\ steps = <<>>
    /\ warned = <<>>

InitInd ==
    /\ column \in SeriesOf(Values, MaxLen)
    /\ period \in 1..MaxWin
    /\ result = <<>>
    /\ called = "none"
    /\ extra = <<>>
    /\ PipelineIdle
    /\ ScriptIdle /\ CollectorIdle

pipeline_vars == <<df_price, df_fear_greed, add_lags, df, pc, steps, warned>>

CallSma ==
    /\ called = "none"
    /\ result' = calculate_sma(column, period)
    /\ called' = "calculate_sma"
    /\ UNCHANGED <<column, period, extra, pipeline_vars, script_vars, collector_vars>>

CallRsi ==
    /\ called = "none"
    /\ result' = calculate_rsi(column, period)
    /\ called' = "calculate_rsi"
    /\ UNCHANGED <<column, period, extra, pipeline_vars, script_vars, collector_vars>>

NextInd == CallSma \/ CallRsi

SpecInd == InitInd /\ [][NextInd]_vars

-----------------------------------------------------------------------------
(* Specification SpecBands: one call of calculate_bollinger_bands or        *)
(* calculate_macd on a drawn series                                         *)

\* the drawn values: missing, or 0..MaxBandVal
BandValues == {NaN} \cup {R(v) : v \in 0..MaxBandVal}

InitBands ==
    /\ column \in SeriesOf(BandValues, MaxLen)
    /\ period \in 1..MaxWin
    /\ result = <<>>
    /\ called = "none"
    /\ extra = <<>>
    /\ PipelineIdle
    /\ ScriptIdle /\ CollectorIdle

CallBollinger ==
    /\ called = "none"
    /\ \E num_std \in 1..MaxStd :
          /\ extra' = <<num_std>>
          /\ result' = calculate_bollinger_bands(column, period, num_std)
    /\ called' = "calculate_bollinger_bands"
    /\ UNCHANGED <<column, period, pipeline_vars, script_vars, collector_vars>>

\* fast = period, slow = period + 1 and a drawn signal span
CallMacd ==
    /\ called = "none"
    /\ \E signal \in 1..MaxSignal :
          /\ extra' = <<period + 1, signal>>
          /\ result' = calculate_macd(column, period, period + 1, signal)
    /\ called' = "calculate_macd"
    /\ UNCHANGED <<column, period, pipeline_vars, script_vars, collector_vars>>

NextBands == CallBollinger \/ CallMacd

SpecBands == InitBands /\ [][NextBands]_vars

-----------------------------------------------------------------------------
(* The consumers of the sentiment classes outside the feature engineering:  *)
(* src/api/dashboard.py and view_data.py. An emoji is written as its code   *)
(* point.                                                                   *)

\* Series.iloc[k]: the value at position k, counted from 0
iloc(col, k) == col[k + 1]

\* get_rsi_signal, lines 87-94
get_rsi_signal(rsi) ==
    IF RLt(rsi, R(30)) THEN "SUR-VENDU (Achat)"
    ELSE IF RGt(rsi, R(70)) THEN "SUR-ACHETE (Vente)"
    ELSE "NEUTRE"

\* variant: the first class excludes its upper limit
get_emoji_for_fear_greed_strict(value) ==
    IF value < 25 THEN "U+1F631"
    ELSE IF value <= 45 THEN "U+1F630"
    ELSE IF value <= 55 THEN "U+1F610"
    ELSE IF value <= 75 THEN "U+1F603"
    ELSE "U+1F911"

get_emoji_for_fear_greed(value) ==
    IF value <= 25 THEN "U+1F631"
    ELSE IF value <= 45 THEN "U+1F630"
    ELSE IF value <= 55 THEN "U+1F610"
    ELSE IF value <= 75 THEN "U+1F603"
    ELSE "U+1F911"

\* dashboard.py, the lambda of lines 407-409
fear_greed_color(x) ==
    IF x <= 25 THEN "darkred"
    ELSE IF x <= 45 THEN "orange"
    ELSE IF x <= 55 THEN "gray"
    ELSE IF x <= 75 THEN "lightgreen"
    ELSE "darkgreen"

\* len(df[mask]) for a boolean mask
CountTrue(mask) == Cardinality({i \in 1..Len(mask) : mask[i]})

\* dashboard.py, lines 459-463: extreme_fear, fear, neutral, greed,
\* extreme_greed
dashboard_distribution(values) ==
    <<CountTrue([i \in 1..Len(values) |-> values[i] <= 25]),
      CountTrue([i \in 1..Len(values) |-> values[i] > 25 /\ values[i] <= 45]),
      CountTrue([i \in 1..Len(values) |-> values[i] > 45 /\ values[i] <= 55]),
      CountTrue([i \in 1..Len(values) |-> values[i] > 55 /\ values[i] <= 75]),
      CountTrue([i \in 1..Len(values) |-> values[i] > 75])>>

\* view_data.py, lines 60-64
view_data_distribution(values) ==
    <<CountTrue([i \in 1..Len(values) |-> values[i] <= 25]),
      CountTrue([i \in 1..Len(values) |-> values[i] > 25 /\ values[i] <= 45]),
      CountTrue([i \in 1..Len(values) |-> values[i] > 45 /\ values[i] <= 55]),
      CountTrue([i \in 1..Len(values) |-> values[i] > 55 /\ values[i] <= 75]),
      CountTrue([i \in 1..Len(values) |-> values[i] > 75])>>

-----------------------------------------------------------------------------
(* Specification SpecStage: one stage of CryptoFeatureEngineer called on    *)
(* its own with its default arguments, or one consumer of the sentiment     *)
(* table, on drawn tables                                                   *)

\* a call as a whole: the table it returns, or the exception that leaves it
StageCall(outcome, name, price_left, fear_greed_left) ==
    /\ pc = "call"
    /\ steps' = <<name>>
    /\ IF outcome.raised
       THEN pc' = "raised" /\ df' = df
       ELSE pc' = "returned" /\ df' = outcome.df
    /\ df_price' = price_left
    /\ df_fear_greed' = fear_greed_left
    /\ UNCHANGED <<add_lags, warned, indicator_vars, script_vars, collector_vars>>

CallTechnical ==
    /\ pc = "call"
    /\ \E fill_method \in FillMethods :
          StageCall(add_technical_indicators(df_price, "price_usd", "volume_24h_usd",
                                             fill_method),
                    "technical",
                    technical_leaves(df_price, "price_usd"), df_fear_greed)

CallTemporal ==
    /\ pc = "call"
    /\ StageCall(add_temporal_features(df_price, "timestamp"), "temporal",
                 temporal_leaves(df_price, "timestamp"), df_fear_greed)

CallSentiment ==
    /\ pc = "call"
    /\ df_fear_greed # None
    /\ StageCall(add_sentiment_features(df_price, df_fear_greed), "sentiment",
                 sentiment_leaves(df_price, df_fear_greed).price,
                 sentiment_leaves(df_price, df_fear_greed).fear_greed)

\* columns=['price_usd'] and lags=[1, 7, 30] are the defaults of line 169
CallLag ==
    /\ pc = "call"
    /\ StageCall(Returned(add_lag_features(df_price, <<"price_usd">>, <<1, 7, 30>>)),
                 "lag",
                 lag_leaves(df_price, <<"price_usd">>, <<1, 7, 30>>), df_fear_greed)

\* create_all_features as one call, lines 209-232: the table it returns or
\* the exception that leaves it, and what it leaves in its two arguments
\* (df_price is passed to the technical stage, df_fear_greed to the
\* sentiment stage)
\* l.218-232, given the outcome of the stages before
after_sentiment(sentiment, price_left, fear_greed_left, lags) ==
    IF sentiment.raised
    THEN [outcome |-> sentiment, price |-> price_left,
          fear_greed |-> fear_greed_left]
    ELSE [outcome |->
             dropna(IF lags
                    THEN add_lag_features(sentiment.df,
                             <<"price_usd", "volume_24h_usd">>, <<1, 7, 30>>)
                    ELSE sentiment.df,
                    {"price_usd", "sma_7", "rsi_14"}),
          price |-> price_left, fear_greed |-> fear_greed_left]

\* l.214-232, given the outcome of add_temporal_features
after_temporal(temporal, price_left, tf, lags) ==
    IF temporal.raised
    THEN [outcome |-> temporal, price |-> price_left, fear_greed |-> tf]
    ELSE IF tf # None
    THEN after_sentiment(add_sentiment_features(temporal.df, tf), price_left,
                         sentiment_leaves(temporal.df, tf).fear_greed, lags)
    ELSE after_sentiment(temporal, price_left, tf, lags)

\* l.211-232, given the outcome of add_technical_indicators
after_technical(technical, price_left, tf, lags) ==
    IF technical.raised
    THEN [outcome |-> technical, price |-> price_left, fear_greed |-> tf]
    ELSE after_temporal(add_temporal_features(technical.df, "timestamp"),
                        price_left, tf, lags)

create_all_features(tp, tf, lags, fill_method) ==
    after_technical(add_technical_indicators(tp, "price_usd", "volume_24h_usd",
                                             fill_method),
                    technical_leaves(tp, "price_usd"), tf, lags)

\* the call has returned or raised: what it gave and what it left
Called(call, name) ==
    StageCall(call.outcome, name, call.price, call.fear_greed)

CallCreateAllFeatures ==
    /\ pc = "call"
    /\ \E fill_method \in FillMethods :
          Called(create_all_features(df_price, df_fear_greed, add_lags,
                                     fill_method),
                 "create_all_features")

\* a consumer of the sentiment table: what it shows, or the exception
View(name, raised, shown) ==
    /\ pc = "call"
    /\ df_fear_greed # None
    /\ steps' = <<name>>
    /\ called' = name
    /\ IF raised
       THEN pc' = "raised" /\ result' = result
       ELSE pc' = "returned" /\ result' = shown
    /\ UNCHANGED <<df_price, df_fear_greed, add_lags, warned, df, column, period, extra, script_vars, collector_vars>>

\* dashboard.py, lines 177-178: the emoji of the last row
ViewEmoji ==
    /\ df_fear_greed # None
    /\ LET n == NRows(df_fear_greed)
       IN  View("get_emoji_for_fear_greed",
                n = 0 \/ "value" \notin DOMAIN df_fear_greed,
                get_emoji_for_fear_greed(df_fear_greed["value"][n]))

\* dashboard.py, lines 407-409: the colour column
ViewColor ==
    /\ df_fear_greed # None
    /\ View("color", "value" \notin DOMAIN df_fear_greed,
            [i \in 1..NRows(df_fear_greed) |->
                fear_greed_color(df_fear_greed["value"][i])])

\* dashboard.py, lines 459-463
ViewDashboardDistribution ==
    /\ df_fear_greed # None
    /\ View("dashboard_distribution", "value" \notin DOMAIN df_fear_greed,
            dashboard_distribution(df_fear_greed["value"]))

\* view_data.py, lines 60-64
ViewDataDistribution ==
    /\ df_fear_greed # None
    /\ View("view_data_distribution", "value" \notin DOMAIN df_fear_greed,
            view_data_distribution(df_fear_greed["value"]))

NextStage ==
    \/ CallTechnical
    \/ CallTemporal
    \/ CallSentiment
    \/ CallLag
    \/ CallCreateAllFeatures
    \/ ViewEmoji
    \/ ViewColor
    \/ ViewDashboardDistribution
    \/ ViewDataDistribution

StartStage(price, fg) ==
    /\ df_price = price
    /\ df_fear_greed = fg
    /\ add_lags = TRUE
    /\ df = <<>>
    /\ pc = "call"
    /\ steps = <<>>
    /\ warned = <<>>
    /\ IndicatorIdle
    /\ ScriptIdle /\ CollectorIdle

\* the names of the drawn pass-through columns: one the core does not
\* know, and two that the core uses itself
PassThroughNames == {"market_cap_usd", "sma_7", "date"}

\* tables of 0..2 rows with or without each of the columns the stages
\* read, the timestamps as datetime64 or as text, and at most one
\* pass-through column; sentiment tables of 0..2 rows
InitStageTables ==
    \E n \in 0..2 : \E has_price \in BOOLEAN : \E has_volume \in BOOLEAN :
    \E ts_kind \in {"datetime64", "text", "absent"} :
    \E extra_col \in PassThroughNames \cup {"none"} :
    \E fg_dates \in {<<0>>, <<>>, <<1>>, <<2>>, <<1, 1>>, <<1, 2>>} :
        StartStage(
            (IF has_price THEN [price_usd |-> Ramp(n)] ELSE <<>>)
            @@ (IF has_volume THEN [volume_24h_usd |-> ZigZag(n)] ELSE <<>>)
            @@ (IF ts_kind = "datetime64" THEN [timestamp |-> Daily(n)]
                ELSE IF ts_kind = "text"
                     THEN [timestamp |-> [i \in 1..n |-> TextTimestamp(i, 0)]]
                ELSE <<>>)
            @@ (IF extra_col = "none" THEN <<>>
                ELSE extra_col :> [i \in 1..n |-> R(100 + i)]),
            IF fg_dates = <<0>> THEN None
            ELSE SentimentTable(fg_dates, Scores(Len(fg_dates), TRUE)))

\* one price row and a sentiment table of one or two rows of the same day
\* and the next, for every score
InitStageScores ==
    \E v \in 0..100 : \E two \in BOOLEAN :
        StartStage(PriceTable(Daily(2), Flat(2), FALSE, <<>>),
                   IF two THEN SentimentTable(<<1, 2>>, <<100 - v, v>>)
                   ELSE SentimentTable(<<1>>, <<v>>))

InitStage == InitStageTables \/ InitStageScores

SpecStage == InitStage /\ [][NextStage]_vars

-----------------------------------------------------------------------------
(* Properties of the indicator library, checked under SpecInd *)

NoMissing(x) == \A i \in 1..Len(x) : IsFinite(x[i])

StrictlyIncreasing(x) ==
    NoMissing(x) /\ \A i \in 2..Len(x) : RLt(x[i - 1], x[i])

StrictlyDecreasing(x) ==
    NoMissing(x) /\ \A i \in 2..Len(x) : RLt(x[i], x[i - 1])

RECURSIVE SumRange(_, _, _)
SumRange(x, lo, hi) ==
    IF lo > hi THEN R(0) ELSE RAdd(SumRange(x, lo, hi - 1), x[hi])

\* first row (1-based) of the trailing window of w rows that ends at row i
WindowStart(i, w) == IF i - w + 1 > 1 THEN i - w + 1 ELSE 1

\* the mean of the trailing window of w rows that ends at row i
TrailingMean(x, i, w) ==
    RDiv(SumRange(x, WindowStart(i, w), i), R(i - WindowStart(i, w) + 1))

\* C1: for a series of length N without missing values and any window W >= 1
\* (W > N included), calculate_sma returns N values, none missing, and
\* output[i] is the mean of input[max(0, i-W+1) .. i].
C1_SmaIsShrinkingTrailingMean ==
    (called = "calculate_sma" /\ NoMissing(column)) =>
        /\ Len(result) = Len(column)
        /\ \A i \in 1..Len(column) :
              /\ IsFinite(result[i])
              /\ result[i] = RDiv(SumRange(column, WindowStart(i, period), i),
                                  R(i - WindowStart(i, period) + 1))

\* C1 witness: a window of 2 over at least 3 distinct-valued rows: row 1 is
\* the prefix mean, row 3 the full trailing mean that has dropped row 1
C1_Witness ==
    /\ called = "calculate_sma" /\ NoMissing(column)
    /\ period = 2 /\ Len(column) >= 3
    /\ result[1] = column[1]
    /\ result[3] = RDiv(RAdd(column[2], column[3]), R(2))
    /\ result[3] # RDiv(SumRange(column, 1, 3), R(3))

\* C3 (as claimed): for a strictly increasing series longer than the period,
\* every row of index >= 1 has an RSI above 50 and the rows from index P on
\* are within 1 of 100.
C3_IncreasingRsiTendsTo100 ==
    (called = "calculate_rsi" /\ StrictlyIncreasing(column) /\ Len(column) > period) =>
        /\ \A i \in 2..Len(column) : RGt(result[i], R(50))
        /\ \A i \in (period + 1)..Len(column) : RLe(R(99), result[i])

\* C4: for a strictly decreasing series calculate_rsi is 0 at every row of
\* index >= 1.
C4_DecreasingRsiIsZero ==
    (called = "calculate_rsi" /\ StrictlyDecreasing(column)) =>
        \A i \in 2..Len(column) : result[i] = R(0)

\* C4 witness: a strictly decreasing series longer than the period, so that
\* both shrinking and full windows occur
C4_Witness ==
    /\ called = "calculate_rsi" /\ StrictlyDecreasing(column)
    /\ Len(column) >= 3 /\ period < Len(column)
    /\ result[Len(column)] = R(0)

\* the positive part and the negated negative part of the first difference
\* at row j, a missing difference counting as 0
GainAt(x, j) ==
    IF j > 1 /\ IsFinite(x[j]) /\ IsFinite(x[j - 1]) /\ RLt(x[j - 1], x[j])
    THEN RSub(x[j], x[j - 1]) ELSE R(0)

LossAt(x, j) ==
    IF j > 1 /\ IsFinite(x[j]) /\ IsFinite(x[j - 1]) /\ RLt(x[j], x[j - 1])
    THEN RSub(x[j - 1], x[j]) ELSE R(0)

AvgGain(x, p, i) ==
    RDiv(SumRange([j \in 1..Len(x) |-> GainAt(x, j)], WindowStart(i, p), i),
         R(i - WindowStart(i, p) + 1))

AvgLoss(x, p, i) ==
    RDiv(SumRange([j \in 1..Len(x) |-> LossAt(x, j)], WindowStart(i, p), i),
         R(i - WindowStart(i, p) + 1))

\* C5: at every row where the trailing average loss is exactly 0 the RSI is
\* 50; at every other row it is 100 - 100/(1 + avg_gain/avg_loss).
C5_RsiZeroLossIsNeutral ==
    called = "calculate_rsi" =>
        \A i \in 1..Len(column) :
            IF AvgLoss(column, period, i) = R(0)
            THEN result[i] = R(50)
            ELSE result[i] = RSub(R(100), RDiv(R(100),
                     RAdd(R(1), RDiv(AvgGain(column, period, i),
                                     AvgLoss(column, period, i)))))

\* C5 witness: one row with gains and no loss in its window (50 by the
\* guard) and one row with both gains and losses in its window
C5_Witness ==
    /\ called = "calculate_rsi"
    /\ \E i \in 1..Len(column) :
          /\ AvgLoss(column, period, i) = R(0)
          /\ RGt(AvgGain(column, period, i), R(0))
          /\ result[i] = R(50)
    /\ \E i \in 1..Len(column) :
          /\ RGt(AvgLoss(column, period, i), R(0))
          /\ RGt(AvgGain(column, period, i), R(0))
          /\ result[i] \notin {R(0), R(50), R(100)}

\* C6: for every finite series and every period every value of
\* calculate_rsi lies in [0, 100].
C6_RsiWithinBounds ==
    (called = "calculate_rsi" /\ NoMissing(column)) =>
        \A i \in 1..Len(column) : RLe(R(0), result[i]) /\ RLe(result[i], R(100))

\* C6 witness: a finite series whose RSI takes the value 0, a value strictly
\* between 50 and 100, and 50
C6_Witness ==
    /\ called = "calculate_rsi" /\ NoMissing(column)
    /\ \E i \in 1..Len(column) : result[i] = R(0)
    /\ \E i \in 1..Len(column) : RLt(R(50), result[i]) /\ RLt(result[i], R(100))
    /\ \E i \in 1..Len(column) : result[i] = R(50)

\* the sample standard deviation of the non-missing values of the trailing
\* window of w rows that ends at row i: sqrt((sum x^2 - (sum x)^2 / n) / (n - 1)),
\* missing with fewer than 2 values
WindowStd(x, i, w) ==
    LET obs == {j \in WindowStart(i, w)..i : ~IsNaN(x[j])}
        n == Cardinality(obs)
        sum == SumOver(x, obs)
        squares == SumOver([j \in 1..Len(x) |-> RMul(x[j], x[j])], obs)
    IN  IF n < 2 THEN NaN
        ELSE RSqrt(RDiv(RSub(squares, RDiv(RMul(sum, sum), R(n))), R(n - 1)))

\* C18: at every row calculate_bollinger_bands has bb_width = bb_upper -
\* bb_lower, bb_upper - bb_lower = 2 * K * (standard deviation of the
\* shrinking window of W rows), and bb_middle = the SMA over that window.
C18_BollingerWidthIsTwoKStd ==
    called = "calculate_bollinger_bands" =>
        LET K == extra[1]
        IN  /\ result.bb_middle = calculate_sma(column, period)
            /\ \A i \in 1..Len(column) :
                  /\ result.bb_width[i] = XSub(result.bb_upper[i], result.bb_lower[i])
                  /\ XSub(result.bb_upper[i], result.bb_lower[i])
                        = XScale(WindowStd(column, i, period), R(2 * K))
                  /\ NoMissing(column) =>
                        result.bb_middle[i] = TrailingMean(column, i, period)

\* C18 witness: bands with K = 2 whose width is missing at the first row,
\* irrational at one row and a positive rational at another
C18_Witness ==
    /\ called = "calculate_bollinger_bands"
    /\ extra = <<2>>
    /\ Len(column) >= 3
    /\ IsNaN(result.bb_width[1])
    /\ \E i \in 1..Len(column) : IsSurd(result.bb_width[i])
    /\ \E i \in 1..Len(column) :
          /\ ~IsSurd(result.bb_width[i])
          /\ RGt(result.bb_width[i], R(0))
          /\ result.bb_upper[i] # result.bb_middle[i]

\* the exponential moving average of a series without missing values:
\* seeded by the first observation, smoothing factor alpha
RECURSIVE EmaAt(_, _, _)
EmaAt(x, alpha, i) ==
    IF i = 1 THEN x[1]
    ELSE RAdd(RMul(alpha, x[i]), RMul(RSub(R(1), alpha), EmaAt(x, alpha, i - 1)))

SmoothingFactor(span) == RDiv(R(2), R(span + 1))

\* two floats are equal, as far as the model tracks them
SameTracked(a, b) == a = Unrep \/ b = Unrep \/ a = b

\* C19: at every row calculate_macd has macd_histogram = macd - macd_signal;
\* macd = EMA(fast) - EMA(slow) of the price and macd_signal = EMA(G) of
\* the macd column, the EMA seeded by the first observation with smoothing
\* factor 2 / (span + 1).
C19_MacdHistogramIsMacdMinusSignal ==
    called = "calculate_macd" =>
        LET fast == period
            slow == extra[1]
            G == extra[2]
        IN  /\ \A i \in 1..Len(column) :
                  result.macd_histogram[i] = RSub(result.macd[i], result.macd_signal[i])
            /\ NoMissing(column) =>
                  \A i \in 1..Len(column) :
                      /\ SameTracked(result.macd[i],
                                     RSub(EmaAt(column, SmoothingFactor(fast), i),
                                          EmaAt(column, SmoothingFactor(slow), i)))
                      /\ SameTracked(result.macd_signal[i],
                                     EmaAt(result.macd, SmoothingFactor(G), i))

\* C19 witness: a series without missing values whose last row has tracked,
\* non-zero and pairwise different macd, signal and histogram
C19_Witness ==
    /\ called = "calculate_macd" /\ NoMissing(column)
    /\ Len(column) >= 3 /\ extra[2] = 2
    /\ LET n == Len(column)
       IN  /\ IsFinite(result.macd[n]) /\ IsFinite(result.macd_signal[n])
           /\ IsFinite(result.macd_histogram[n])
           /\ result.macd[n] # R(0) /\ result.macd_histogram[n] # R(0)
           /\ result.macd_signal[n] # result.macd[n]
           /\ result.macd[n] = RSub(EmaAt(column, SmoothingFactor(period), n),
                                    EmaAt(column, SmoothingFactor(period + 1), n))

-----------------------------------------------------------------------------
(* Properties of create_all_features, checked under Spec *)

\* the step executed last
LastStep == IF steps = <<>> THEN "none" ELSE steps[Len(steps)]

\* add_sentiment_features has just returned
SentimentDone == pc = "lags" /\ LastStep = "sentiment"

\* add_lag_features has just returned
LagsDone == pc = "trim" /\ LastStep = "lag"

DatesOf(t) == dt_date(t["timestamp"])

\* at most one sentiment row per calendar date
OneRowPerDate(t) ==
    \A i, j \in 1..NRows(t) : DatesOf(t)[i] = DatesOf(t)[j] => i = j

\* the price rows are in date order
InDateOrder(t) == \A i \in 2..NRows(t) : DatesOf(t)[i - 1] <= DatesOf(t)[i]

\* the sentiment value in force on date d: the value of the latest sentiment
\* date at or before d, NaN when there is none
AsOf(fg, d) ==
    LET at_or_before == {j \in 1..NRows(fg) : DatesOf(fg)[j] <= d}
    IN  IF at_or_before = {} THEN NaN
        ELSE R(fg["value"][CHOOSE j \in at_or_before :
                              \A k \in at_or_before : DatesOf(fg)[k] <= DatesOf(fg)[j]])

\* C2 (as claimed): with at most one sentiment row per date, whether or not
\* the sentiment dates occur among the price dates, every output row's
\* fear_greed_index is the sentiment value of the latest sentiment date at or
\* before the row's date, and missing when there is none.
C2_SentimentIsAsOfJoin ==
    (SentimentDone /\ OneRowPerDate(df_fear_greed) /\ InDateOrder(df_price)) =>
        /\ NRows(df) = NRows(df_price)
        /\ \A i \in 1..NRows(df) :
              df["fear_greed_index"][i] = AsOf(df_fear_greed, DatesOf(df)[i])

\* the positions of the rows of t that the final trim keeps
KeptRows(t) ==
    {i \in 1..NRows(t) :
        ~IsNaN(t["price_usd"][i]) /\ ~IsNaN(t["sma_7"][i]) /\ ~IsNaN(t["rsi_14"][i])}

\* the number of kept rows at positions 1..i
Rank(t, i) == Cardinality({k \in KeptRows(t) : k <= i})

\* C7: the final trim returns exactly the rows in which price_usd, sma_7 and
\* rsi_14 are all non-missing, in their original order, whatever the number
\* of rows dropped; it warns iff a row was dropped and does not raise.
C7_TrimKeepsCompleteRowsInOrder ==
    [][(pc = "trim" /\ {"price_usd", "sma_7", "rsi_14"} \subseteq DOMAIN df) =>
          /\ pc' = "returned"
          /\ DOMAIN df' = DOMAIN df
          /\ NRows(df') = Cardinality(KeptRows(df))
          /\ \A i \in KeptRows(df) : \A c \in DOMAIN df :
                df'[c][Rank(df, i)] = df[c][i]
          /\ warned' = IF NRows(df') < NRows(df)
                       THEN <<NRows(df) - NRows(df')>> ELSE <<>>]_vars

\* C7 witness: the trim has dropped a row from the middle of the table and
\* kept rows on both sides of it
C7_Witness ==
    /\ pc = "returned"
    /\ NRows(df_price) = 3
    /\ IsNaN(df_price["price_usd"][2])
    /\ NRows(df) = 2
    /\ df["timestamp"] = <<df_price["timestamp"][1], df_price["timestamp"][3]>>
    /\ warned = <<1>>

IsPrefix(a, b) == Len(a) <= Len(b) /\ a = SubSeq(b, 1, Len(a))

\* the steps of a complete call, in order
ExpectedSteps ==
    <<"technical", "temporal">>
    \o (IF df_fear_greed # None THEN <<"sentiment">> ELSE <<>>)
    \o (IF add_lags THEN <<"lag">> ELSE <<>>)
    \o <<"trim">>

\* C8: the steps run in the order technical, temporal, sentiment iff a
\* sentiment table was supplied, lag iff add_lags, trim; none runs twice or
\* out of turn, and a call that returns has run them all with the trim last.
C8_StepsInFixedOrder ==
    /\ IsPrefix(steps, ExpectedSteps)
    /\ pc = "returned" => steps = ExpectedSteps

\* C8 witness: a returned call that skipped the sentiment stage and ran the
\* lag stage
C8_Witness ==
    /\ pc = "returned"
    /\ df_fear_greed = None
    /\ steps = <<"technical", "temporal", "lag", "trim">>

\* C9: after the lag stage, for each of price_usd and volume_24h_usd that
\* the table has and each lag L of 1, 7, 30, the column c_lag_Ld holds
\* c[i-L] at every row i >= L and is missing at every row i < L.
C9_LagColumnsAreShiftedSources ==
    LagsDone =>
        \A c \in {"price_usd", "volume_24h_usd"} \cap DOMAIN df :
        \A L \in {1, 7, 30} :
            /\ lag_name(c, L) \in DOMAIN df
            /\ \A i \in 1..NRows(df) :
                  df[lag_name(c, L)][i] = IF i > L THEN df[c][i - L] ELSE NaN

\* C9 witness: a table of more than 30 rows with a varying volume: the last
\* row of each lag column holds the value of L rows before, and the three
\* lags hold different values there
C9_Witness ==
    /\ LagsDone
    /\ NRows(df) > 30
    /\ "volume_24h_usd" \in DOMAIN df
    /\ LET n == NRows(df)
           v == df["volume_24h_usd"]
       IN  /\ df["volume_24h_usd_lag_1d"][n] = v[n - 1]
           /\ df["volume_24h_usd_lag_7d"][n] = v[n - 7]
           /\ df["volume_24h_usd_lag_30d"][n] = v[n - 30]
           /\ v[n - 1] # v[n - 7] /\ v[n - 7] # v[n - 30]
           /\ IsNaN(df["price_usd_lag_30d"][30])
           /\ ~IsNaN(df["price_usd_lag_30d"][31])

\* the class of a sentiment score by the thresholds 25, 45, 55, 75
BucketOf(v) ==
    IF v <= 25 THEN "is_extreme_fear"
    ELSE IF v <= 45 THEN "is_fear"
    ELSE IF v <= 55 THEN "is_neutral"
    ELSE IF v <= 75 THEN "is_greed"
    ELSE "is_extreme_greed"

BucketFlags == {"is_extreme_fear", "is_fear", "is_neutral", "is_greed", "is_extreme_greed"}

\* the sentiment table {2024-01-01: 80, 2024-01-03: 20} on price rows dated
\* 2024-01-01 .. 2024-01-04
Scenario2 ==
    /\ DatesOf(df_price) = <<1, 2, 3, 4>>
    /\ DatesOf(df_fear_greed) = <<1, 3>>
    /\ df_fear_greed["value"] = <<80, 20>>

\* C10: after add_sentiment_features every row whose fear_greed_index is a
\* score v of 0..100 has exactly one bucket flag equal to 1, the one of v's
\* bucket; the table {2024-01-01: 80, 2024-01-03: 20} on rows dated
\* 2024-01-01..04 gives fear_greed_index [80, 80, 20, 20], is_extreme_greed
\* [1, 1, 0, 0] and is_extreme_fear [0, 0, 1, 1].
C10_ExactlyOneBucketFlag ==
    SentimentDone =>
        /\ \A i \in 1..NRows(df) : \A v \in 0..100 :
              df["fear_greed_index"][i] = R(v) =>
                  \A f \in BucketFlags : df[f][i] = IF f = BucketOf(v) THEN 1 ELSE 0
        /\ Scenario2 =>
              /\ df["fear_greed_index"] = <<R(80), R(80), R(20), R(20)>>
              /\ df["is_extreme_greed"] = <<1, 1, 0, 0>>
              /\ df["is_extreme_fear"] = <<0, 0, 1, 1>>

\* C10 witness: the scenario, with its forward-filled rows flagged
C10_Witness ==
    /\ SentimentDone
    /\ Scenario2
    /\ df["fear_greed_index"] = <<R(80), R(80), R(20), R(20)>>
    /\ df["is_extreme_greed"][2] = 1
    /\ df["is_extreme_fear"][4] = 1

\* every row holds the same finite non-zero price
ConstantPrice(t) ==
    /\ "price_usd" \in DOMAIN t
    /\ \A i \in 1..NRows(t) :
          /\ IsFinite(t["price_usd"][i])
          /\ t["price_usd"][i] = t["price_usd"][1]
          /\ t["price_usd"][i] # R(0)

PriceChangeName(p) == "price_change_" \o ToString(p) \o "d"

\* the technical stage has returned (its columns stay in df to the end)
TechnicalDone == "rsi_14" \in DOMAIN df

\* the rows of df are the rows of the price series: no sentiment table that
\* holds a date twice was joined to them
RowsAreThePriceRows ==
    df_fear_greed # None /\ "timestamp" \in DOMAIN df_fear_greed
        => OneRowPerDate(df_fear_greed)

BeforeTrim == pc \in {"temporal", "sentiment", "lags", "trim"}

\* C12 (as claimed): after the technical, temporal, sentiment and lag stages
\* the table holds exactly one row per input price row, in input order, for
\* every price table and every sentiment table.
C12_StagesKeepTheRows ==
    BeforeTrim =>
        /\ NRows(df) = NRows(df_price)
        /\ \A c \in DOMAIN df_price \cap {"price_usd"} : df[c] = df_price[c]
        /\ \A c \in DOMAIN df_price \cap DOMAIN df \cap {"timestamp"} :
              to_datetime(df[c]) = to_datetime(df_price[c])

TechnicalColumns ==
    {"sma_7", "sma_30", "ema_12", "ema_26", "rsi_14",
     "macd", "macd_signal", "macd_histogram",
     "bb_upper", "bb_middle", "bb_lower", "bb_width",
     "price_change_1d", "price_change_7d", "price_change_30d",
     "price_to_sma7_ratio", "price_to_sma30_ratio", "sma_crossover"}

TemporalColumns ==
    {"year", "month", "day", "day_of_week", "hour", "quarter",
     "is_weekend", "is_month_start", "is_month_end"}

VolumeColumns ==
    {"volume_ma_7", "volume_ma_30", "volume_ratio", "volume_change_1d", "volume_spike"}

SentimentColumns ==
    {"fear_greed_index", "fg_ma_7", "fg_ma_30", "fg_change_7d",
     "is_extreme_fear", "is_fear", "is_neutral", "is_greed", "is_extreme_greed"}

LagColumns(c) == {lag_name(c, L) : L \in {1, 7, 30}}

HasVolume == "volume_24h_usd" \in DOMAIN df_price

\* the columns the claim expects for the inputs of the call
ExpectedColumns ==
    DOMAIN df_price \cup TechnicalColumns \cup TemporalColumns
    \cup (IF HasVolume THEN VolumeColumns ELSE {})
    \cup (IF df_fear_greed # None THEN SentimentColumns ELSE {})
    \cup (IF add_lags THEN LagColumns("price_usd") ELSE {})
    \cup (IF add_lags /\ HasVolume THEN LagColumns("volume_24h_usd") ELSE {})

\* a mandatory column is missing from the price table or from the supplied
\* sentiment table
MandatoryMissing ==
    \/ ~({"price_usd", "timestamp"} \subseteq DOMAIN df_price)
    \/ df_fear_greed # None /\ ~({"timestamp", "value"} \subseteq DOMAIN df_fear_greed)

TechnicalReturned == pc = "temporal"

\* C16 (as claimed): for every price series and every period p of 1, 7, 30,
\* price_change_pd[i] = (price[i] / price[i-p] - 1) * 100 at every row
\* i >= p, and it is missing at every row i < p.
C16_PriceChangeIsRatioToLaggedPrice ==
    TechnicalReturned =>
        \A p \in {1, 7, 30} : \A i \in 1..NRows(df) :
            df[PriceChangeName(p)][i] =
                IF i > p
                THEN RMul(RSub(RDiv(df_price["price_usd"][i],
                                    df_price["price_usd"][i - p]), R(1)), R(100))
                ELSE NaN

\* C17: at every row of the technical stage's output sma_crossover is 1 iff
\* sma_7 > sma_30 at that row and 0 otherwise, never missing; both averages
\* are the means of the shrinking windows over the rows seen so far.
C17_CrossoverIffSma7AboveSma30 ==
    TechnicalReturned =>
        /\ \A i \in 1..NRows(df) :
              /\ df["sma_crossover"][i] \in {0, 1}
              /\ df["sma_crossover"][i] = 1 <=> RGt(df["sma_7"][i], df["sma_30"][i])
        /\ NoMissing(df_price["price_usd"]) =>
              \A i \in 1..NRows(df) :
                  /\ df["sma_7"][i] = TrailingMean(df_price["price_usd"], i, 7)
                  /\ df["sma_30"][i] = TrailingMean(df_price["price_usd"], i, 30)

\* C17 witness: a rising series of more than 30 rows: the flag is 0 while
\* the two windows coincide and 1 once the short window has moved on
C17_Witness ==
    /\ TechnicalReturned
    /\ NRows(df) > 30
    /\ df["sma_crossover"][7] = 0 /\ df["sma_7"][7] = df["sma_30"][7]
    /\ df["sma_crossover"][8] = 1 /\ RGt(df["sma_7"][8], df["sma_30"][8])
    /\ df["sma_30"][31] # TrailingMean(df_price["price_usd"], 31, 31)

-----------------------------------------------------------------------------
(* Properties of the stages called on their own, checked under SpecStage *)

StageNames == {"technical", "temporal", "sentiment", "lag"}

\* a stage called on its own has returned
StageReturned == pc = "returned" /\ LastStep \in StageNames

\* C13 (as claimed): every column of a stage's input, whatever its name, is
\* present in the stage's output with the same value at every row.
C13_StagesAreAppendOnly ==
    StageReturned =>
        \A c \in DOMAIN df_price : c \in DOMAIN df /\ df[c] = df_price[c]

\* C15 (as claimed): a stage that consumes the price column (the technical
\* stage and the lag stage) raises when the table has no price column.
C15_MissingPriceIsAnError ==
    (pc # "call" /\ LastStep \in {"technical", "lag"}
     /\ "price_usd" \notin DOMAIN df_price) => pc = "raised"

EmojiOfBucket ==
    [is_extreme_fear |-> "U+1F631", is_fear |-> "U+1F630", is_neutral |-> "U+1F610",
     is_greed |-> "U+1F603", is_extreme_greed |-> "U+1F911"]

ColorOfBucket ==
    [is_extreme_fear |-> "darkred", is_fear |-> "orange", is_neutral |-> "gray",
     is_greed |-> "lightgreen", is_extreme_greed |-> "darkgreen"]

BucketOrder == <<"is_extreme_fear", "is_fear", "is_neutral", "is_greed", "is_extreme_greed">>

\* the number of rows of each bucket, in BucketOrder
BucketCounts(values) ==
    [k \in 1..5 |->
        Cardinality({i \in 1..Len(values) : BucketOf(values[i]) = BucketOrder[k]})]

\* C20: every consumer of a sentiment value v of 0..100 selects the bucket
\* of v by the thresholds 25, 45, 55, 75: the five flags of
\* add_sentiment_features, get_emoji_for_fear_greed, the colour mapping and
\* the distribution counts of the dashboard, and the distribution counts of
\* view_data.
C20_OneClassificationEverywhere ==
    (pc = "returned" /\ df_fear_greed # None) =>
        LET values == df_fear_greed["value"]
        IN  /\ LastStep = "get_emoji_for_fear_greed" =>
                  result = EmojiOfBucket[BucketOf(values[Len(values)])]
            /\ LastStep = "color" =>
                  result = [i \in 1..Len(values) |-> ColorOfBucket[BucketOf(values[i])]]
            /\ LastStep = "dashboard_distribution" => result = BucketCounts(values)
            /\ LastStep = "view_data_distribution" => result = BucketCounts(values)
            /\ LastStep = "sentiment" =>
                  \A i \in 1..NRows(df) : \A v \in 0..100 :
                      df["fear_greed_index"][i] = R(v) =>
                          \A f \in BucketFlags :
                              df[f][i] = IF f = BucketOf(v) THEN 1 ELSE 0
            /\ \A i \in 1..Len(values) :
                  LET v == values[i]
                  IN  /\ get_emoji_for_fear_greed(v) = EmojiOfBucket[BucketOf(v)]
                      /\ fear_greed_color(v) = ColorOfBucket[BucketOf(v)]
                      /\ dashboard_distribution(<<v>>) = view_data_distribution(<<v>>)
                      /\ dashboard_distribution(<<v>>) = BucketCounts(<<v>>)
                      /\ astype_int(<<is_extreme_fear(R(v)), is_fear(R(v)),
                                      is_neutral(R(v)), is_greed(R(v)),
                                      is_extreme_greed(R(v))>>)
                            = BucketCounts(<<v>>)

\* C20 witness: the emoji of a score on a threshold (25 is still extreme
\* fear) in a table whose other row is in another bucket
C20_Witness ==
    /\ pc = "returned" /\ LastStep = "get_emoji_for_fear_greed"
    /\ df_fear_greed["value"] = <<75, 25>>
    /\ result = "U+1F631"
    /\ dashboard_distribution(df_fear_greed["value"]) = <<1, 0, 0, 1, 0>>

-----------------------------------------------------------------------------
(* Further properties of create_all_features, checked under Spec *)

WindowColumns ==
    {"sma_7", "sma_30", "bb_middle", "bb_upper", "bb_lower", "bb_width"}

VolumeWindowColumns == {"volume_ma_7", "volume_ma_30"}

\* the price column, and the volume column when there is one, hold no
\* missing value
CompleteInput ==
    /\ "price_usd" \in DOMAIN df_price
    /\ NoMissing(df_price["price_usd"])
    /\ HasVolume => NoMissing(df_price["volume_24h_usd"])

\* C22 (as claimed): for a price (and volume) series with no missing values,
\* sma_7, sma_30, bb_middle, bb_upper, bb_lower, bb_width, volume_ma_7 and
\* volume_ma_30 are non-missing at every row, row 0 included.
C22_WindowIndicatorsNeverMissing ==
    (TechnicalReturned /\ CompleteInput) =>
        \A c \in WindowColumns \cup (IF HasVolume THEN VolumeWindowColumns ELSE {}) :
            \A i \in 1..NRows(df) : ~IsNaN(df[c][i])

\* row i of df is dated before every date of the sentiment table
BeforeFirstSentiment(i) ==
    /\ NRows(df_fear_greed) > 0
    /\ \A j \in 1..NRows(df_fear_greed) : DatesOf(df)[i] < DatesOf(df_fear_greed)[j]

\* C23 (as claimed): at the price rows dated before the first sentiment date
\* fear_greed_index is missing, and so are fg_ma_7, fg_ma_30, fg_change_7d
\* and the five bucket flags of the row: none of them holds a concrete value
\* such as 0; no error is raised.
C23_MissingSentimentPropagates ==
    (SentimentDone /\ InDateOrder(df_price)) =>
        \A i \in 1..NRows(df) :
            BeforeFirstSentiment(i) =>
                /\ \A c \in {"fear_greed_index", "fg_ma_7", "fg_ma_30", "fg_change_7d"} :
                      IsNaN(df[c][i])
                /\ \A f \in BucketFlags : df[f][i] \notin {0, 1}

\* C24 (as claimed): every ratio of the technical stage whose denominator is
\* 0 (price_change_pd with price[i-p] = 0, price_to_sma7_ratio and
\* price_to_sma30_ratio with a zero average, volume_ratio with
\* volume_ma_7 = 0, volume_change_1d with volume[i-1] = 0) is missing at that
\* row, not infinite, for every numerator.
C24_ZeroDenominatorIsMissing ==
    TechnicalReturned =>
        /\ \A p \in {1, 7, 30} : \A i \in 1..NRows(df) :
              (i > p /\ df_price["price_usd"][i - p] = R(0)) =>
                  IsNaN(df[PriceChangeName(p)][i])
        /\ \A i \in 1..NRows(df) :
              /\ df["sma_7"][i] = R(0) => IsNaN(df["price_to_sma7_ratio"][i])
              /\ df["sma_30"][i] = R(0) => IsNaN(df["price_to_sma30_ratio"][i])
        /\ HasVolume =>
              \A i \in 1..NRows(df) :
                  /\ df["volume_ma_7"][i] = R(0) => IsNaN(df["volume_ratio"][i])
                  /\ (i > 1 /\ df_price["volume_24h_usd"][i - 1] = R(0)) =>
                        IsNaN(df["volume_change_1d"][i])

\* C28: for every price series with at least one row and no missing price,
\* the table create_all_features returns has a first row, the row the
\* dashboard reads with iloc[0], and its signals are neutral: rsi_14 = 50 at
\* row 0 (shown as neutral by the dashboard), and sma_7 = sma_30 with
\* sma_crossover = 0 at every row of index < 7.
C28_FirstRowIsNeutral ==
    (pc = "returned" /\ NRows(df_price) >= 1 /\ NoMissing(df_price["price_usd"])) =>
        /\ NRows(df) >= 1
        /\ iloc(df["rsi_14"], 0) = R(50)
        /\ get_rsi_signal(iloc(df["rsi_14"], 0)) = "NEUTRE"
        /\ \A k \in 0..6 :
              k < NRows(df) =>
                  /\ iloc(df["sma_7"], k) = iloc(df["sma_30"], k)
                  /\ iloc(df["sma_crossover"], k) = 0

\* C28 witness: a returned call on a rising series of more than 7 rows: the
\* rows of index < 7 are neutral although the RSI has left 50 at row 1 and
\* the averages part at row 7
C28_Witness ==
    /\ pc = "returned"
    /\ NRows(df) > 7
    /\ StrictlyIncreasing(df_price["price_usd"])
    /\ iloc(df["rsi_14"], 0) = R(50)
    /\ iloc(df["sma_7"], 6) = iloc(df["sma_30"], 6)
    /\ iloc(df["sma_7"], 7) # iloc(df["sma_30"], 7)
    /\ iloc(df["sma_crossover"], 7) = 1

Min(a, b) == IF a <= b THEN a ELSE b

\* the 7-row window ending at row i of x holds only zeros
WindowAllZero(x, i) == \A j \in WindowStart(i, 7)..i : x[j] = R(0)

\* C30: for every volume series of non-negative values, volume_spike is 1
\* iff volume[i] > 2 * volume_ma_7[i] and 0 otherwise; volume_ratio[i], where
\* defined, is at most the number of rows in its window, min(i+1, 7) counting
\* rows from 0; volume_spike is 0 at rows 0 and 1 and wherever the 7-row
\* window holds only zeros.
C30_VolumeSpikeIsTwiceTheAverage ==
    (TechnicalReturned /\ HasVolume) =>
        LET v == df_price["volume_24h_usd"]
        IN  \A i \in 1..NRows(df) :
                /\ df["volume_spike"][i] \in {0, 1}
                /\ df["volume_spike"][i] = 1
                      <=> RGt(v[i], RMul(R(2), df["volume_ma_7"][i]))
                /\ ~IsNaN(df["volume_ratio"][i]) =>
                      /\ IsFinite(df["volume_ratio"][i])
                      /\ RLe(df["volume_ratio"][i], R(Min(i, 7)))
                /\ i <= 2 => df["volume_spike"][i] = 0
                /\ WindowAllZero(v, i) =>
                      IsNaN(df["volume_ratio"][i]) /\ df["volume_spike"][i] = 0

\* C30 witness: a long volume series with a burst: a spike at the burst, the
\* ratio above 2 there (9 against an average of 12/7), and no spike before
C30_Witness ==
    /\ TechnicalReturned /\ HasVolume
    /\ NRows(df) >= 9
    /\ df["volume_spike"][9] = 1
    /\ RGt(df["volume_ratio"][9], R(2))
    /\ df["volume_ma_7"][9] = Frac(12, 7)
    /\ df["volume_ratio"][1] = R(1)
    /\ \A i \in 1..8 : df["volume_spike"][i] = 0

-----------------------------------------------------------------------------
(* Further properties of the stages called on their own, under SpecStage *)

\* C21: a call of add_technical_indicators, add_temporal_features,
\* add_sentiment_features, add_lag_features or create_all_features, whether
\* it returns or raises, leaves the tables passed to it (the price table
\* and the sentiment table) with the same columns, rows and values as
\* before the call.
C21_ArgumentsAreLeftUnchanged ==
    [][df_price' = df_price /\ df_fear_greed' = df_fear_greed]_vars

\* C21 witness: create_all_features has returned a table with the new
\* columns (the timestamps converted from text) while the caller's price
\* table still holds its text timestamps and only its own columns, and the
\* caller's sentiment table has no date column
C21_Witness ==
    /\ pc = "returned" /\ steps = <<"create_all_features">>
    /\ NRows(df_price) = 2 /\ NRows(df) = 2
    /\ {"sma_7", "rsi_14", "year", "fear_greed_index", "price_usd_lag_1d"}
           \subseteq DOMAIN df
    /\ DOMAIN df_price = {"price_usd", "timestamp"}
    /\ ~is_datetime64_any_dtype(df_price["timestamp"])
    /\ is_datetime64_any_dtype(df["timestamp"])
    /\ df_fear_greed # None
    /\ DOMAIN df_fear_greed = {"timestamp", "value"}

-----------------------------------------------------------------------------
(* The collectors: src/data/collectors/coingecko_collector.py,              *)
(* fear_greed_collector.py and binance_collector.py                         *)
(*                                                                          *)
(* env holds what a collector finds outside the program: whether the keys   *)
(* are set in the environment, and what each remote call does. A call       *)
(* gives its caller a value ("DataFrame", "dict", or the absence signals    *)
(* "None" and "{}") or lets an exception escape.                            *)

\* what an HTTP request can do: answer well, fail in the network
\* (requests.get raises), answer with an error status such as 401, 403 or
\* 429 (raise_for_status raises), or answer with a body that is not the
\* expected JSON (json() or the field accesses raise)
HttpReplies == {"ok", "network_error", "http_error", "malformed"}

\* the /global reply may also be JSON of the expected shape whose numbers
\* are null
GlobalReplies == HttpReplies \cup {"null_values"}

\* exchange.load_markets(): it answers, fails in the network, or rejects
\* the credentials
MarketReplies == {"ok", "network_error", "rejected"}

\* exchange.fetch_ohlcv(): candles, no candle, ccxt.NetworkError,
\* ccxt.ExchangeError, or any other exception
OhlcvReplies == {"ok", "empty", "network_error", "exchange_error", "malformed"}

Gave(entry, value, logged) ==
    [entry |-> entry, escaped |-> FALSE, value |-> value, logged |-> logged]

Escaped(entry, exception) ==
    [entry |-> entry, escaped |-> TRUE, value |-> exception, logged |-> "none"]

\* CoinGeckoCollector.__init__, lines 15-23
CoinGeckoCollector(e) ==
    IF ~e.COINGECKO_API_KEY THEN "ValueError" ELSE "collector"

\* CoinGeckoCollector.fetch_current_prices, lines 41-78: every failure is
\* caught, logged as an error and answered by None
fetch_current_prices(e) ==
    IF e.prices = "ok" THEN Gave("fetch_current_prices", "DataFrame", "success")
    ELSE Gave("fetch_current_prices", "None", "error")

\* CoinGeckoCollector.fetch_global_data, lines 89-109
fetch_global_data(e) ==
    IF e.global \in {"ok", "null_values"}
    THEN Gave("fetch_global_data", "dict", "success")
    ELSE Gave("fetch_global_data", "None", "error")

\* collect_coingecko_data, lines 151-166: the constructor is called outside
\* any try block; the market capitalisation of a non-empty global_data is
\* formatted with ':,.0f' (line 159), which raises TypeError for None
collect_coingecko_data(e) ==
    IF CoinGeckoCollector(e) = "ValueError"
    THEN Escaped("collect_coingecko_data", "ValueError")
    ELSE IF fetch_global_data(e).value = "dict" /\ e.global = "null_values"
    THEN Escaped("collect_coingecko_data", "TypeError")
    ELSE Gave("collect_coingecko_data", fetch_current_prices(e).value,
              fetch_current_prices(e).logged)

\* FearGreedCollector.fetch_current_index, lines 28-46
fetch_current_index(e) ==
    IF e.fng = "ok" THEN Gave("fetch_current_index", "dict", "success")
    ELSE Gave("fetch_current_index", "None", "error")

\* FearGreedCollector.fetch_historical, lines 60-83
fetch_historical(e) ==
    IF e.fng = "ok" THEN Gave("fetch_historical", "DataFrame", "success")
    ELSE Gave("fetch_historical", "None", "error")

\* collect_fear_greed_data, lines 126-141: the constructor reads an optional
\* URL and cannot fail
collect_fear_greed_data(e) ==
    Gave("collect_fear_greed_data", fetch_historical(e).value,
         fetch_historical(e).logged)

\* BinanceCollector.__init__, lines 28-57: ValueError without keys; a
\* failure of load_markets is logged and raised again
BinanceCollector(e) ==
    IF ~e.BINANCE_KEYS THEN "ValueError"
    ELSE IF e.markets = "network_error" THEN "NetworkError"
    ELSE IF e.markets = "rejected" THEN "AuthenticationError"
    ELSE "collector"

\* BinanceCollector.fetch_ohlcv, lines 79-132
fetch_ohlcv(e) ==
    IF e.ohlcv = "ok" THEN Gave("fetch_ohlcv", "DataFrame", "success")
    ELSE IF e.ohlcv = "empty" THEN Gave("fetch_ohlcv", "None", "warning")
    ELSE Gave("fetch_ohlcv", "None", "error")

\* BinanceCollector.fetch_multiple_symbols, lines 154-171: the symbols
\* whose fetch_ohlcv answered None are left out of the dict
fetch_multiple_symbols(e) ==
    IF fetch_ohlcv(e).value = "DataFrame"
    THEN Gave("fetch_multiple_symbols", "dict", "success")
    ELSE Gave("fetch_multiple_symbols", "{}", "warning")

\* collect_binance_data, lines 304-325: the whole body is in one try block
collect_binance_data(e) ==
    IF BinanceCollector(e) # "collector"
    THEN Gave("collect_binance_data", "{}", "error")
    ELSE IF fetch_ohlcv(e).value = "DataFrame"
    THEN Gave("collect_binance_data", "dict", "success")
    ELSE Gave("collect_binance_data", "{}", fetch_ohlcv(e).logged)

\* an entry point is called by a script, which has no try block of its own
\* around the two calls of collect_data.py
Call(given) ==
    /\ pc = "call"
    /\ answer' = given
    /\ pc' = IF given.escaped THEN "raised" ELSE "returned"
    /\ UNCHANGED <<env, timeframe, days_back, since, all_data, requests,
                   df_price, df_fear_greed, add_lags, df, steps, warned,
                   indicator_vars, script_vars>>

\* collect_data.py, line 15
CollectCoingecko ==
    /\ pc = "call"
    /\ Call(collect_coingecko_data(env))

\* collect_data.py, line 19
CollectFearGreed ==
    /\ pc = "call"
    /\ Call(collect_fear_greed_data(env))

\* collect_binance_data.py, line 43
CollectBinance ==
    /\ pc = "call"
    /\ Call(collect_binance_data(env))

\* the methods of a collector that could be built
FetchCurrentPrices ==
    /\ pc = "call"
    /\ CoinGeckoCollector(env) = "collector"
    /\ Call(fetch_current_prices(env))

FetchGlobalData ==
    /\ pc = "call"
    /\ CoinGeckoCollector(env) = "collector"
    /\ Call(fetch_global_data(env))

FetchCurrentIndex ==
    /\ pc = "call"
    /\ Call(fetch_current_index(env))

FetchHistorical ==
    /\ pc = "call"
    /\ Call(fetch_historical(env))

FetchOhlcv ==
    /\ pc = "call"
    /\ BinanceCollector(env) = "collector"
    /\ Call(fetch_ohlcv(env))

FetchMultipleSymbols ==
    /\ pc = "call"
    /\ BinanceCollector(env) = "collector"
    /\ Call(fetch_multiple_symbols(env))

NextCollect ==
    \/ CollectCoingecko
    \/ CollectFearGreed
    \/ CollectBinance
    \/ FetchCurrentPrices
    \/ FetchGlobalData
    \/ FetchCurrentIndex
    \/ FetchHistorical
    \/ FetchOhlcv
    \/ FetchMultipleSymbols

\* any environment: each key set or not, each remote call with any reply
InitCollect ==
    /\ env \in [COINGECKO_API_KEY : BOOLEAN, BINANCE_KEYS : BOOLEAN,
                prices : HttpReplies, global : GlobalReplies, fng : HttpReplies,
                markets : MarketReplies, ohlcv : OhlcvReplies]
    /\ answer = <<>>
    /\ timeframe = "1d" /\ days_back = 0 /\ since = 0
    /\ all_data = <<>> /\ requests = <<>>
    /\ df_price = <<>> /\ df_fear_greed = None /\ add_lags = FALSE /\ df = <<>>
    /\ pc = "call" /\ steps = <<>> /\ warned = <<>>
    /\ IndicatorIdle /\ ScriptIdle

SpecCollect == InitCollect /\ [][NextCollect]_vars

\* a remote call or a key the entry point depends on for its data has failed
FailedFor(entry) ==
    CASE entry \in {"collect_coingecko_data", "fetch_current_prices"} ->
             ~env.COINGECKO_API_KEY \/ env.prices # "ok"
      [] entry = "fetch_global_data" ->
             env.global \in {"network_error", "http_error", "malformed"}
      [] entry \in {"collect_fear_greed_data", "fetch_historical",
                    "fetch_current_index"} -> env.fng # "ok"
      [] entry \in {"collect_binance_data", "fetch_ohlcv", "fetch_multiple_symbols"} ->
             ~env.BINANCE_KEYS \/ env.markets # "ok" \/ env.ohlcv # "ok"

\* C26 (as claimed): every collector entry point answers every external
\* failure (network error, HTTP error status, malformed response, missing
\* or rejected credentials) by logging and giving its caller an absence
\* signal, None or an empty dict, and never lets an exception escape.
C26_CollectorsNeverRaise ==
    pc \in {"returned", "raised"} =>
        /\ ~answer.escaped
        /\ FailedFor(answer.entry) =>
              answer.value \in {"None", "{}"} /\ answer.logged \in {"error", "warning"}


-----------------------------------------------------------------------------
(* Specification SpecProcess: the loop of process_features over the symbols *)
(* of a price file                                                          *)

FileSymbols == {"BTC", "ETH", "btc"}

\* str.lower() on the symbols of the files
lower(symbol) ==
    CASE symbol = "BTC" -> "btc"
      [] symbol = "ETH" -> "eth"
      [] symbol = "btc" -> "btc"

\* Series.unique(): the values of col in order of first appearance
RECURSIVE unique(_)
unique(col) ==
    IF col = <<>> THEN <<>>
    ELSE LET before == unique(SubSeq(col, 1, Len(col) - 1))
             last == col[Len(col)]
         IN  IF \E k \in 1..Len(before) : before[k] = last
             THEN before
             ELSE Append(before, last)

\* df_price[df_price['symbol'] == symbol]: the rows of the symbol, in the
\* order of the file
rows_of(t, symbol) ==
    LET RECURSIVE pick(_)
        pick(n) == IF n = 0 THEN <<>>
                   ELSE IF t["symbol"][n] = symbol THEN Append(pick(n - 1), n)
                   ELSE pick(n - 1)
    IN  TakeRows(t, pick(NRows(t)))

\* the order of two timestamp texts "YYYY-MM-DD HH:..." as strings
text_key(ts) == ((ts.year * 100 + ts.month) * 100 + ts.day) * 100 + ts.hour

\* sort_values('timestamp').reset_index(drop=True) on a text column whose
\* values are all different
sort_values(t) ==
    LET n == NRows(t)
        rank(i) == Cardinality({k \in 1..n :
                        text_key(t["timestamp"][k]) < text_key(t["timestamp"][i])}) + 1
    IN  TakeRows(t, [r \in 1..n |-> CHOOSE i \in 1..n : rank(i) = r])

\* f"data/processed/{symbol.lower()}_features_{date_str}.csv", date_str
\* being the second of the clock
output_file(symbol, second) == <<lower(symbol), "_features_", second>>

\* l.64-71: the features of the rows of the symbol are written under the
\* name of the second read after they are computed; an exception of the
\* pipeline ends the script
Save(symbol, call, now) ==
    /\ df_fear_greed' = call.fear_greed
    /\ clock' = now
    /\ steps' = Append(steps, symbol)
    /\ IF call.outcome.raised
       THEN /\ pc' = "raised"
            /\ UNCHANGED <<df, written, symbols>>
       ELSE /\ df' = call.outcome.df
            /\ written' = (output_file(symbol, now) :> call.outcome.df) @@ written
            /\ symbols' = Tail(symbols)
            /\ pc' = "loop"

\* one iteration of the loop; the clock may pass to the next second while
\* the features are computed
ProcessSymbol ==
    /\ pc = "loop"
    /\ symbols # <<>>
    /\ \E fill_method \in FillMethods : \E now \in clock..MaxClock :
          Save(Head(symbols),
               create_all_features(sort_values(rows_of(df_price, Head(symbols))),
                                   df_fear_greed, TRUE, fill_method),
               now)
    /\ UNCHANGED <<df_price, add_lags, warned, indicator_vars, collector_vars>>

\* the summary after the loop
Summary ==
    /\ pc = "loop"
    /\ symbols = <<>>
    /\ pc' = "done"
    /\ UNCHANGED <<df_price, df_fear_greed, add_lags, df, steps, warned,
                   indicator_vars, script_vars, collector_vars>>

NextProcess == ProcessSymbol \/ Summary

\* text that does not name a day of the calendar
BadTimestamp == [year |-> 2024, month |-> 13, day |-> 1, hour |-> 0]

FileTimestamps == {TextTimestamp(d, 0) : d \in 1..2} \cup {BadTimestamp}

\* a price file of 1..MaxFileRows rows in any order, no two rows of one
\* symbol at the same timestamp, with or without a sentiment file
InitProcess ==
    \E n \in 1..MaxFileRows :
    \E syms \in [1..n -> FileSymbols] : \E ts \in [1..n -> FileTimestamps] :
    \E has_sentiment \in BOOLEAN :
        /\ \A i, k \in 1..n : (i # k /\ syms[i] = syms[k]) => ts[i] # ts[k]
        /\ df_price = [timestamp |-> ts, symbol |-> syms, price_usd |-> Ramp(n)]
        /\ df_fear_greed =
              IF has_sentiment
              THEN [timestamp |-> <<TextTimestamp(1, 0), TextTimestamp(2, 0)>>,
                    value |-> <<20, 80>>]
              ELSE None
        /\ add_lags = TRUE
        /\ df = <<>>
        /\ pc = "loop"
        /\ steps = <<>>
        /\ warned = <<>>
        /\ symbols = unique(syms)
        /\ written = <<>>
        /\ clock = 0
        /\ IndicatorIdle
        /\ CollectorIdle

SpecProcess == InitProcess /\ [][NextProcess]_vars

\* the script is over: the loop ended or an exception ended it
ScriptOver == pc \in {"done", "raised"}

\* the table process_features writes for the symbol when the price file
\* holds the rows of that symbol only
Alone(symbol, fill_method) ==
    create_all_features(sort_values(rows_of(df_price, symbol)), df_fear_greed,
                        TRUE, fill_method).outcome

\* C25: when the script is over, every symbol of the file whose own rows pass
\* the pipeline has a written table, the one its rows give on their own,
\* whatever the rows of the other symbols are
C25_TableIsIndependentOfOtherAssets ==
    ScriptOver =>
        \A k \in 1..NRows(df_price) :
            LET symbol == df_price["symbol"][k]
            IN  (\E fill_method \in FillMethods : ~Alone(symbol, fill_method).raised)
                =>
                \E second \in 0..MaxClock : \E fill_method \in FillMethods :
                    /\ output_file(symbol, second) \in DOMAIN written
                    /\ written[output_file(symbol, second)]
                           = Alone(symbol, fill_method).df

-----------------------------------------------------------------------------
(* Specification SpecRange: one call of                                     *)
(* BinanceCollector.fetch_historical_range                                  *)
(*                                                                          *)
(* Times are whole seconds since the epoch of the model, where the          *)
(* conversions between milliseconds and datetimes are exact: the time t     *)
(* stands for t * 1000 ms.                                                  *)

\* timeframe_to_ms, lines 192-199
timeframe_to_ms ==
    [tf \in {"1m", "5m", "15m", "1h", "4h", "1d"} |->
        CASE tf = "1m" -> 60
          [] tf = "5m" -> 5 * 60
          [] tf = "15m" -> 15 * 60
          [] tf = "1h" -> 60 * 60
          [] tf = "4h" -> 4 * 60 * 60
          [] tf = "1d" -> 24 * 60 * 60]

\* the timeframes of the docstring of fetch_ohlcv
Timeframes == {"1m", "5m", "15m", "30m", "1h", "4h", "1d", "1w"}

\* the length of a candle of the exchange
candle_of(tf) ==
    IF tf \in DOMAIN timeframe_to_ms THEN timeframe_to_ms[tf]
    ELSE IF tf = "30m" THEN 30 * 60
    ELSE 7 * 24 * 60 * 60

ms_per_candle == timeframe_to_ms[timeframe]
ms_back == days_back * 24 * 60 * 60
candles_needed == ms_back \div ms_per_candle

\* pd.to_datetime(df['timestamp'], unit='ms'), line 107
to_datetime_ms(t) == [date |-> t \div 86400, second |-> t % 86400]

\* int(ts.timestamp() * 1000), line 229
timestamp_ms(ts) == ts.date * 86400 + ts.second

\* a page of candles in ascending order, one per candle length
Candles(first, rows) == [first |-> to_datetime_ms(first), rows |-> rows]

\* the last row of a page: df['timestamp'].iloc[-1]
last_timestamp(page, tf) ==
    to_datetime_ms(timestamp_ms(page.first) + (page.rows - 1) * candle_of(tf))

\* self.exchange.fetch_ohlcv: the candles the exchange holds are those that
\* opened up to now. An exchange that honours since answers the first
\* candles from since on, at most limit of them; without since, or when it
\* ignores since, it answers the latest ones
exchange_fetch_ohlcv(e, tf, limit, since_arg) ==
    LET c == candle_of(tf)
        newest == (e.now \div c) * c
    IN  IF since_arg = <<>> \/ e.ohlcv = "ignores since"
        THEN IF limit <= 0 THEN None
             ELSE Candles(newest - (limit - 1) * c, limit)
        ELSE LET first == ((since_arg[1] + c - 1) \div c) * c
                 held == IF first > newest THEN 0 ELSE (newest - first) \div c + 1
                 rows == IF held < limit THEN held ELSE limit
             IN  IF rows <= 0 THEN None ELSE Candles(first, rows)

Replies == {"page", "part", "empty", "error"}

\* BinanceCollector.fetch_ohlcv, lines 79-132: None for a symbol the exchange
\* does not list, for an empty answer and for every exception, otherwise the
\* rows of the answer ("part": the exchange answers its first row only)
fetch_ohlcv_page(e, tf, limit, since_arg, reply) ==
    IF e.markets # "listed" \/ reply \in {"empty", "error"} THEN None
    ELSE LET ohlcv == exchange_fetch_ohlcv(e, tf, limit, since_arg)
         IN  IF ohlcv = None THEN None
             ELSE IF reply = "part" THEN [ohlcv EXCEPT !.rows = 1]
             ELSE ohlcv

\* len(df) of what fetch_ohlcv returned, 0 for None
len(page) == IF page = None THEN 0 ELSE page.rows

\* history: the call of fetch_ohlcv and the rows it returned
Request(limit, since_arg, page) ==
    [limit |-> limit, since |-> since_arg, rows |-> len(page)]

\* line 231 with the break of another page length
is_last_page_never(page) == FALSE

\* line 231: if len(df) < 1000
is_last_page(page) == len(page) < 1000

RangeUnchanged ==
    UNCHANGED <<df_price, df_fear_greed, add_lags, df, steps, warned,
                indicator_vars, script_vars, env, timeframe, days_back>>

\* lines 201-214: the branch taken
StartRange ==
    /\ pc = "call"
    /\ pc' = IF timeframe \notin DOMAIN timeframe_to_ms THEN "unsupported"
             ELSE IF candles_needed <= 1000 THEN "single"
             ELSE "while"
    /\ since' = IF timeframe \in DOMAIN timeframe_to_ms /\ candles_needed > 1000
                THEN env.now - ms_back ELSE since
    /\ UNCHANGED <<all_data, requests, answer>>
    /\ RangeUnchanged

\* what a single call of fetch_ohlcv returns to the caller
ReturnOne(limit) ==
    \E reply \in Replies :
        LET page == fetch_ohlcv_page(env, timeframe, limit, <<>>, reply)
        IN  /\ requests' = Append(requests, Request(limit, <<>>, page))
            /\ answer' = page
            /\ pc' = "returned"
            /\ UNCHANGED <<since, all_data>>
            /\ RangeUnchanged

\* lines 201-203
UnsupportedTimeframe ==
    /\ pc = "unsupported"
    /\ ReturnOne(days_back)

\* lines 210-212
SingleRequest ==
    /\ pc = "single"
    /\ ReturnOne(candles_needed)

\* lines 219-233: one turn of the loop
Turn(page) ==
    /\ requests' = Append(requests, Request(1000, <<since>>, page))
    /\ IF page = None
       THEN /\ pc' = "after"
            /\ UNCHANGED <<all_data, since>>
       ELSE /\ all_data' = Append(all_data, page)
            /\ since' = timestamp_ms(last_timestamp(page, timeframe)) + ms_per_candle
            /\ pc' = IF is_last_page(page) THEN "after" ELSE "while"
    /\ UNCHANGED answer
    /\ RangeUnchanged

PageRequest ==
    /\ pc = "while"
    /\ Len(all_data) < candles_needed
    /\ \E reply \in Replies :
          Turn(fetch_ohlcv_page(env, timeframe, 1000, <<since>>, reply))

\* line 219: the condition of the loop is false
LoopEnds ==
    /\ pc = "while"
    /\ ~(Len(all_data) < candles_needed)
    /\ pc' = "after"
    /\ UNCHANGED <<since, all_data, requests, answer>>
    /\ RangeUnchanged

\* the timestamps of the rows of a page
TimestampsOf(page, tf) ==
    {timestamp_ms(page.first) + i * candle_of(tf) : i \in 0..(page.rows - 1)}

\* lines 235-247: None without a page, otherwise the rows of the pages
\* without duplicate timestamps
ConcatPages ==
    /\ pc = "after"
    /\ answer' = IF all_data = <<>> THEN None
                 ELSE [rows |-> Cardinality(UNION {TimestampsOf(page, timeframe) :
                                  page \in {all_data[k] : k \in 1..Len(all_data)}})]
    /\ pc' = "returned"
    /\ UNCHANGED <<since, all_data, requests>>
    /\ RangeUnchanged

NextRange ==
    \/ StartRange
    \/ UnsupportedTimeframe
    \/ SingleRequest
    \/ PageRequest
    \/ LoopEnds
    \/ ConcatPages

\* the calls: timeframe and days_back around the limit of 1000 candles
RangeCalls ==
    {<<"1d", 0>>, <<"1d", 365>>, <<"1d", 1000>>, <<"1d", 1001>>,
     <<"1h", 41>>, <<"4h", 100>>, <<"15m", 10>>, <<"15m", 11>>,
     <<"30m", 30>>, <<"1w", 365>>}

\* exchange.milliseconds() at the call: on a candle boundary, and half a
\* minute after one
Clocks == {1200 * 86400, 1200 * 86400 + 30}

\* the exchanges: listing the symbol or not, honouring since or not (the
\* clock makes no difference to the answers of one that ignores since)
Exchanges ==
    {e \in [markets : {"listed", "unlisted"},
            ohlcv : {"honours since", "ignores since"},
            now : Clocks] :
        e.ohlcv = "ignores since" => e.now % 60 = 0}

InitRange ==
    \E call \in RangeCalls :
        /\ timeframe = call[1]
        /\ days_back = call[2]
        /\ env \in Exchanges
        /\ answer = <<>>
        /\ since = 0
        /\ all_data = <<>>
        /\ requests = <<>>
        /\ df_price = <<>>
        /\ df_fear_greed = None
        /\ add_lags = FALSE
        /\ df = <<>>
        /\ pc = "call"
        /\ steps = <<>>
        /\ warned = <<>>
        /\ IndicatorIdle
        /\ ScriptIdle

\* every call of fetch_ohlcv returns, and the interpreter goes on
SpecRange == InitRange /\ [][NextRange]_vars /\ WF_vars(NextRange)

\* the timeframe is supported and more than 1000 candles are needed
Paged == timeframe \in DOMAIN timeframe_to_ms /\ candles_needed > 1000

\* the timeframe is supported and at most 1000 candles are needed
OneRequestSuffices == timeframe \in DOMAIN timeframe_to_ms /\ candles_needed <= 1000

\* the timestamp of the last row of a page
LastOf(page) == timestamp_ms(page.first) + (page.rows - 1) * candle_of(timeframe)

\* the last request, and the one before it
LastRequest == requests[Len(requests)]
RequestBefore == requests[Len(requests) - 1]

\* the requests are as claimed, said of the latest ones (every request is
\* the latest one in the state that follows it): pages of limit 1000 with a
\* since, none after a page that was None, empty or short, and at most
\* candles_needed of them; or a single request of limit candles_needed
RequestsAsClaimed ==
    /\ Paged =>
          /\ Len(requests) <= candles_needed
          /\ Len(requests) = Len(all_data) + (IF pc \in {"after", "returned"}
                                                 /\ requests # <<>>
                                                 /\ LastRequest.rows = 0
                                              THEN 1 ELSE 0)
          /\ requests # <<>> =>
                /\ LastRequest.limit = 1000
                /\ LastRequest.since # <<>>
                /\ pc = "while" => LastRequest.rows >= 1000
          /\ Len(requests) >= 2 => RequestBefore.rows >= 1000
    /\ OneRequestSuffices =>
          /\ Len(requests) <= 1
          /\ pc = "returned" =>
                /\ Len(requests) = 1
                /\ LastRequest.limit = candles_needed

\* a page request after the first one asks from the last timestamp returned
\* plus one candle, which is later than the since before when the exchange
\* honours since
SinceAdvances ==
    (Paged /\ requests # <<>> /\ requests' # requests) =>
        LET before == requests[Len(requests)]
            now_asked == requests'[Len(requests')]
        IN  /\ Len(requests') = Len(requests) + 1
            /\ now_asked.since[1]
                  = LastOf(all_data[Len(all_data)]) + timeframe_to_ms[timeframe]
            /\ env.ohlcv = "honours since" => now_asked.since[1] > before.since[1]

=============================================================================
